---- MODULE Spec2Model ----
(***************************************************************************)
(* The ledger store of the group-treasurer application (StoreProvider):    *)
(* the in-memory members, accounts, loans and transactions, the working    *)
(* date, the persistence backend tables, and the mutation handlers.        *)
(*                                                                         *)
(* Modelling conventions                                                   *)
(*  - identities (uuidv4) are fresh positive integers drawn from per-kind  *)
(*    counters; 0 (NoId) stands for undefined / null;                      *)
(*  - calendar dates ("YYYY-MM-DD", compared as strings) are day numbers,  *)
(*    whose integer order is the strings' lexicographic order;             *)
(*  - money is integer (inputs are chosen so that amount * rate / 100 is   *)
(*    exact; floating-point drift is not modelled);                        *)
(*  - a handler is one action: its validation, its optimistic in-memory    *)
(*    update and its backend write, whose outcome (ok / error) is an input;*)
(*  - fetchData suspends at each select, so it is one action per select;   *)
(*    handlers are taken while no reload is running.                       *)
(***************************************************************************)
EXTENDS Integers, Sequences, FiniteSets, TLC

VARIABLES
    members,        \* useState<Member[]>        : Seq of [id, active, advance_credit]
    accounts,       \* useState<Account[]>       : Seq of [id, account_name, type, active, memberId]
    transactions,   \* useState<Transaction[]>   : Seq of transaction records
    loans,          \* useState<Loan[]>          : Seq of loan records
    workingDate,    \* useState(workingDate)
    db,             \* the backend tables: [members, accounts, loans, transactions]
    fetchPc,        \* position of the running fetchData, or "idle"
    nextId,         \* fresh identities per entity kind: [m, a, l, t]
    failures,       \* number of backend calls that have failed so far
    lastCall        \* the last handler invoked and what it returned: [op, ret]

vars == <<members, accounts, transactions, loans, workingDate, db, fetchPc,
          nextId, failures, lastCall>>

----------------------------------------------------------------------------
(* Bounds of the model *)

MaxMembers == 2      \* members created by addMember
MaxLoans == 2        \* loans created by addLoan
MaxTrans == 3        \* entries appended by the handlers
MaxFailures == 1     \* backend calls that fail
MaxCredit == 1500    \* carried credit a contribution may leave
MaxAccounts == 3     \* accounts in memory when addAccount is taken
MaxCreated == 2      \* records created in the failing-backend scenario

(* Program constants *)

DAILY_SHARE_CAP == 1000
LoanTermDays == 30
\* the 0.01 tolerance of deleteAccount, in hundredths
EPSILON_HUNDREDTHS == 1

NoId == 0

Days == {1, 2}
\* a working date after every due date, so that OVERDUE is reachable
LateDay == 2 + LoanTermDays + 1
WorkingDates == Days \cup {LateDay}

FundTypes == {"PRINCIPAL", "INTEREST"}

OkRet == "null"
MemberNotFound == "Member not found"
InsufficientFundsErr == "Insufficient funds in account"
OutstandingLoanErr == "Member already has an outstanding loan. Please repay it first."
InsufficientInterestErr == "Insufficient interest funds."
DatabaseErr == "Database error"
CannotDeleteErr == "Cannot delete account. It has a remaining balance."

----------------------------------------------------------------------------
(* Generic helpers *)

Min(a, b) == IF a < b THEN a ELSE b
Max(a, b) == IF a > b THEN a ELSE b

RECURSIVE SumAmount(_)
\* .reduce((sum, t) => sum + t.amount, 0)
SumAmount(s) == IF s = <<>> THEN 0 ELSE Head(s).amount + SumAmount(Tail(s))

----------------------------------------------------------------------------
(* Field mapping across the persistence boundary *)

ToDbMember(m) == m
FromDbMember(r) == r

ToDbAccount(a) ==
    [id |-> a.id, account_name |-> a.account_name, type |-> a.type,
     active |-> a.active, member_id |-> a.memberId]
FromDbAccount(r) ==
    [id |-> r.id, account_name |-> r.account_name, type |-> r.type,
     active |-> r.active, memberId |-> r.member_id]

ToDbLoan(l) ==
    [id |-> l.id, member_id |-> l.memberId, amount_given |-> l.amount_given,
     interest_rate |-> l.interest_rate, date_given |-> l.date_given,
     due_date |-> l.due_date]
FromDbLoan(r) ==
    [id |-> r.id, memberId |-> r.member_id, amount_given |-> r.amount_given,
     interest_rate |-> r.interest_rate, date_given |-> r.date_given,
     due_date |-> r.due_date]

ToDbTrans(t) ==
    [id |-> t.id, date |-> t.date, member_id |-> t.memberId,
     account_id |-> t.accountId, fund_type |-> t.fund_type,
     transaction_type |-> t.transaction_type, amount |-> t.amount,
     related_loan_id |-> t.related_loan_id]
FromDbTrans(r) ==
    [id |-> r.id, date |-> r.date, memberId |-> r.member_id,
     accountId |-> r.account_id, fund_type |-> r.fund_type,
     transaction_type |-> r.transaction_type, amount |-> r.amount,
     related_loan_id |-> r.related_loan_id]

MapSeq(s, F(_)) == [i \in 1..Len(s) |-> F(s[i])]

----------------------------------------------------------------------------
(* Derived views *)

\* a slip: entries dated on the working date itself are not counted
isBeforeWorkingDate(dateStr) == dateStr < workingDate

isBeforeOrOnWorkingDate(dateStr) == dateStr <= workingDate

getAccountBalance(accountId) ==
    LET accTrans == SelectSeq(transactions, LAMBDA t :
                        t.accountId = accountId /\ isBeforeOrOnWorkingDate(t.date))
        principal == SumAmount(SelectSeq(accTrans, LAMBDA t : t.fund_type = "PRINCIPAL"))
        interest == SumAmount(SelectSeq(accTrans, LAMBDA t : t.fund_type = "INTEREST"))
    IN [principal |-> principal, interest |-> interest, total |-> principal + interest]

\* a slip: a loan is already overdue on its due date
getLoanDetailsOverdueOnDueDate(loan) ==
    LET interestAmount == (loan.amount_given * loan.interest_rate) \div 100
        totalDue == loan.amount_given + interestAmount
        amountPaid == SumAmount(SelectSeq(transactions, LAMBDA t :
                          /\ t.related_loan_id = loan.id
                          /\ t.transaction_type = "LOAN_REPAYMENT"
                          /\ isBeforeOrOnWorkingDate(t.date)))
        balance == totalDue - amountPaid
        status == IF balance <= 0 THEN "PAID"
                  ELSE IF workingDate >= loan.due_date THEN "OVERDUE"
                  ELSE "UNPAID"
    IN [interestAmount |-> interestAmount, totalDue |-> totalDue,
        amountPaid |-> amountPaid, balance |-> balance, status |-> status]

getLoanDetails(loan) ==
    LET interestAmount == (loan.amount_given * loan.interest_rate) \div 100
        totalDue == loan.amount_given + interestAmount
        amountPaid == SumAmount(SelectSeq(transactions, LAMBDA t :
                          /\ t.related_loan_id = loan.id
                          /\ t.transaction_type = "LOAN_REPAYMENT"
                          /\ isBeforeOrOnWorkingDate(t.date)))
        balance == totalDue - amountPaid
        status == IF balance <= 0 THEN "PAID"
                  ELSE IF workingDate > loan.due_date THEN "OVERDUE"
                  ELSE "UNPAID"
    IN [interestAmount |-> interestAmount, totalDue |-> totalDue,
        amountPaid |-> amountPaid, balance |-> balance, status |-> status]

\* contributions.sort(newest first)[0].date, NoId standing for null
lastContributionDateOf(contributions) ==
    IF Len(contributions) = 0 THEN NoId
    ELSE contributions[CHOOSE i \in 1..Len(contributions) :
             \A j \in 1..Len(contributions) : contributions[j].date <= contributions[i].date].date

RECURSIVE SumActiveBalance(_)
\* memberLoans.forEach: totalLoanBalance += details.balance when not PAID
SumActiveBalance(ls) ==
    IF Len(ls) = 0 THEN 0
    ELSE (IF getLoanDetails(Head(ls)).status # "PAID"
          THEN getLoanDetails(Head(ls)).balance ELSE 0) + SumActiveBalance(Tail(ls))

RECURSIVE SumTotalBalance(_)
\* memberAccounts.forEach: fundsHeld += getAccountBalance(acc.id).total
SumTotalBalance(as) ==
    IF Len(as) = 0 THEN 0
    ELSE getAccountBalance(Head(as).id).total + SumTotalBalance(Tail(as))

getMemberStats(memberId) ==
    LET memberTransactions == SelectSeq(transactions, LAMBDA t :
                                  t.memberId = memberId /\ isBeforeOrOnWorkingDate(t.date))
        contributions == SelectSeq(memberTransactions, LAMBDA t :
                             t.transaction_type = "CONTRIBUTION")
        memberLoans == SelectSeq(loans, LAMBDA l :
                           l.memberId = memberId /\ isBeforeOrOnWorkingDate(l.date_given))
        activeLoans == Len(SelectSeq(memberLoans, LAMBDA l :
                           getLoanDetails(l).status # "PAID"))
        memberAccounts == SelectSeq(accounts, LAMBDA a :
                              a.memberId = memberId /\ a.type = "MEMBER")
    IN [totalContributed |-> SumAmount(contributions),
        activeLoans |-> activeLoans,
        totalLoanBalance |-> SumActiveBalance(memberLoans),
        lastContributionDate |-> lastContributionDateOf(contributions),
        fundsHeld |-> SumTotalBalance(memberAccounts)]

----------------------------------------------------------------------------
(* Initial state: the provider has just been constructed and its mount     *)
(* effect has started fetchData; the backend holds what earlier sessions   *)
(* stored.                                                                 *)

InitOver(backend, today) ==
    /\ members = <<>>
    /\ accounts = <<>>
    /\ transactions = <<>>
    /\ loans = <<>>
    /\ workingDate = today
    /\ db = backend
    /\ fetchPc = "members"
    /\ nextId = [m |-> 1, a |-> 1, l |-> 1, t |-> 1]
    /\ failures = 0
    /\ lastCall = [op |-> "mount", ret |-> "void"]

EmptyBackend == [members |-> <<>>, accounts |-> <<>>, loans |-> <<>>, transactions |-> <<>>]

\* the outcomes a backend call can have
WriteOutcomes == IF failures < MaxFailures THEN {TRUE, FALSE} ELSE {TRUE}
Failed(ok) == IF ok THEN 0 ELSE 1

----------------------------------------------------------------------------
(* fetchData: one step per awaited select *)

FetchMembers(ok) ==
    /\ fetchPc = "members"
    /\ members' = IF ok THEN MapSeq(db.members, FromDbMember) ELSE members
    /\ fetchPc' = "accounts"
    /\ failures' = failures + Failed(ok)
    /\ lastCall' = [op |-> "fetchData", ret |-> "void"]
    /\ UNCHANGED <<accounts, transactions, loans, workingDate, db, nextId>>

defaultAccounts(first) ==
    << [id |-> first,     account_name |-> "Cash",         type |-> "CASH",   active |-> TRUE, memberId |-> NoId],
       [id |-> first + 1, account_name |-> "Airtel Money", type |-> "MOBILE", active |-> TRUE, memberId |-> NoId],
       [id |-> first + 2, account_name |-> "Mpamba",       type |-> "MOBILE", active |-> TRUE, memberId |-> NoId],
       [id |-> first + 3, account_name |-> "Bank",         type |-> "BANK",   active |-> TRUE, memberId |-> NoId] >>

FetchAccounts(ok, okSeed) ==
    /\ fetchPc = "accounts"
    /\ IF ~ok
       THEN /\ failures' = failures + 1
            /\ UNCHANGED <<accounts, db, nextId>>
       ELSE IF Len(db.accounts) = 0
       THEN \* no accounts stored: seed the defaults, then persist them
            /\ accounts' = defaultAccounts(nextId.a)
            /\ nextId' = [nextId EXCEPT !.a = @ + 4]
            /\ db' = IF okSeed
                     THEN [db EXCEPT !.accounts = @ \o MapSeq(defaultAccounts(nextId.a), ToDbAccount)]
                     ELSE db
            /\ failures' = failures + Failed(okSeed)
       ELSE /\ accounts' = MapSeq(db.accounts, FromDbAccount)
            /\ UNCHANGED <<db, nextId, failures>>
    /\ failures' <= MaxFailures
    /\ fetchPc' = "loans"
    /\ lastCall' = [op |-> "fetchData", ret |-> "void"]
    /\ UNCHANGED <<members, transactions, loans, workingDate>>

FetchLoans(ok) ==
    /\ fetchPc = "loans"
    /\ loans' = IF ok THEN MapSeq(db.loans, FromDbLoan) ELSE loans
    /\ fetchPc' = "transactions"
    /\ failures' = failures + Failed(ok)
    /\ lastCall' = [op |-> "fetchData", ret |-> "void"]
    /\ UNCHANGED <<members, accounts, transactions, workingDate, db, nextId>>

FetchTransactions(ok) ==
    /\ fetchPc = "transactions"
    /\ transactions' = IF ok THEN MapSeq(db.transactions, FromDbTrans) ELSE transactions
    /\ fetchPc' = "idle"
    /\ failures' = failures + Failed(ok)
    /\ lastCall' = [op |-> "fetchData", ret |-> "void"]
    /\ UNCHANGED <<members, accounts, loans, workingDate, db, nextId>>

----------------------------------------------------------------------------
(* Handlers *)

SetWorkingDate(date) ==
    /\ fetchPc = "idle"
    /\ workingDate' = date
    /\ lastCall' = [op |-> "setWorkingDate", ret |-> "void"]
    /\ UNCHANGED <<members, accounts, transactions, loans, db, fetchPc, nextId, failures>>

AddMember(startingCredit, ok) ==
    LET newMember == [id |-> nextId.m, active |-> TRUE, advance_credit |-> startingCredit]
    IN /\ fetchPc = "idle"
       /\ nextId.m <= MaxMembers
       /\ members' = Append(members, newMember)
       /\ db' = IF ok THEN [db EXCEPT !.members = Append(@, ToDbMember(newMember))] ELSE db
       /\ nextId' = [nextId EXCEPT !.m = @ + 1]
       /\ failures' = failures + Failed(ok)
       /\ lastCall' = [op |-> "addMember", ret |-> "id"]
       /\ UNCHANGED <<accounts, transactions, loans, workingDate, fetchPc>>

\* prev.map(m => m.id === id ? { ...m, ...updates } : m), updates = {advance_credit}
ApplyMemberUpdate(ms, id, credit) ==
    [i \in 1..Len(ms) |->
        IF ms[i].id = id THEN [ms[i] EXCEPT !.advance_credit = credit] ELSE ms[i]]

UpdateMember(id, credit, ok) ==
    /\ fetchPc = "idle"
    /\ members' = ApplyMemberUpdate(members, id, credit)
    /\ db' = IF ok THEN [db EXCEPT !.members = ApplyMemberUpdate(@, id, credit)] ELSE db
    /\ failures' = failures + Failed(ok)
    /\ lastCall' = [op |-> "updateMember", ret |-> "void"]
    /\ UNCHANGED <<accounts, transactions, loans, workingDate, fetchPc, nextId>>

\* prev.map(m => m.id === id ? { ...m, ...updates } : m), updates = {active}
ApplyMemberActive(ms, id, active) ==
    [i \in 1..Len(ms) |->
        IF ms[i].id = id THEN [ms[i] EXCEPT !.active = active] ELSE ms[i]]

\* updateMember(id, { active })
UpdateMemberActive(id, active, ok) ==
    /\ fetchPc = "idle"
    /\ members' = ApplyMemberActive(members, id, active)
    /\ db' = IF ok THEN [db EXCEPT !.members = ApplyMemberActive(@, id, active)] ELSE db
    /\ failures' = failures + Failed(ok)
    /\ lastCall' = [op |-> "updateMember", ret |-> "void"]
    /\ UNCHANGED <<accounts, transactions, loans, workingDate, fetchPc, nextId>>

----------------------------------------------------------------------------
(* addContribution: the contribution allocator *)

HasMember(memberId) == \E i \in 1..Len(members) : members[i].id = memberId
\* members.find(m => m.id === memberId)
FindMember(memberId) ==
    members[CHOOSE i \in 1..Len(members) :
                /\ members[i].id = memberId
                /\ \A j \in 1..(i - 1) : members[j].id # memberId]

\* a slip: the as-of filter of the other aggregators is applied here too
existingContributionVisibleOnDate(memberId, date) ==
    SumAmount(SelectSeq(transactions, LAMBDA t :
        /\ t.memberId = memberId /\ t.date = date /\ t.transaction_type = "CONTRIBUTION"
        /\ isBeforeOrOnWorkingDate(t.date)))

existingContributionAmountOnDate(memberId, date) ==
    SumAmount(SelectSeq(transactions, LAMBDA t :
        t.memberId = memberId /\ t.date = date /\ t.transaction_type = "CONTRIBUTION"))

remainingShareCapacity(memberId, date) ==
    Max(0, DAILY_SHARE_CAP - existingContributionAmountOnDate(memberId, date))

RECURSIVE InsertByDateGiven(_, _)
\* insert l after every element whose date_given is <= its own (stable)
InsertByDateGiven(sorted, l) ==
    IF sorted = <<>> THEN <<l>>
    ELSE IF Head(sorted).date_given <= l.date_given
         THEN <<Head(sorted)>> \o InsertByDateGiven(Tail(sorted), l)
         ELSE <<l>> \o sorted

RECURSIVE SortByDateGiven(_)
\* .sort((a, b) => new Date(a.date_given).getTime() - new Date(b.date_given).getTime())
SortByDateGiven(ls) ==
    IF ls = <<>> THEN <<>>
    ELSE InsertByDateGiven(SortByDateGiven(SubSeq(ls, 1, Len(ls) - 1)), ls[Len(ls)])

\* each loan of the member with its details merged in
WithDetails(l) ==
    [id |-> l.id, date_given |-> l.date_given,
     balance |-> getLoanDetails(l).balance, status |-> getLoanDetails(l).status]

\* a slip: the unpaid loans are taken in stored order, the sort is missing
unpaidLoansUnsorted(memberId) ==
    SelectSeq(MapSeq(SelectSeq(loans, LAMBDA l : l.memberId = memberId), WithDetails),
              LAMBDA l : l.status # "PAID")

unpaidLoans(memberId) ==
    SortByDateGiven(
        SelectSeq(MapSeq(SelectSeq(loans, LAMBDA l : l.memberId = memberId), WithDetails),
                  LAMBDA l : l.status # "PAID"))

\* a slip: the whole remaining extra goes to the loan
repaymentAmountUncapped(remainingExtra, balance) == remainingExtra

\* Math.min(remainingExtra, loan.balance)
repaymentAmountOf(remainingExtra, balance) == Min(remainingExtra, balance)

RECURSIVE RepayLoop(_, _)
\* for (const loan of unpaidLoans) { ... }: the repayments emitted and what is left
RepayLoop(unpaid, remainingExtra) ==
    IF unpaid = <<>> \/ remainingExtra <= 0
    THEN [repayments |-> <<>>, remainingExtra |-> remainingExtra]
    ELSE LET loan == Head(unpaid)
             repaymentAmount == repaymentAmountOf(remainingExtra, loan.balance)
             rest == RepayLoop(Tail(unpaid),
                               IF repaymentAmount > 0 THEN remainingExtra - repaymentAmount
                                                      ELSE remainingExtra)
         IN [repayments |->
                (IF repaymentAmount > 0
                 THEN <<[loanId |-> loan.id, amount |-> repaymentAmount]>>
                 ELSE <<>>) \o rest.repayments,
             remainingExtra |-> rest.remainingExtra]

\* a slip: the leftover is added to the credit the member already had
updatedAdvanceCreditAdded(previousCredit, remainingExtra) == previousCredit + remainingExtra

\* updatedAdvanceCredit = remainingExtra; updateMember(memberId, { advance_credit })
updatedAdvanceCreditOf(previousCredit, remainingExtra) == remainingExtra

\* the split of amount + carried credit: share, repayments, new carried credit
Allocate(memberId, amount, date) ==
    LET member == FindMember(memberId)
        totalPool == amount + member.advance_credit
        share == Min(remainingShareCapacity(memberId, date), totalPool)
        extra == totalPool - share
        loop == IF extra > 0 THEN RepayLoop(unpaidLoans(memberId), extra)
                ELSE [repayments |-> <<>>, remainingExtra |-> 0]
    IN [share |-> share,
        repayments |-> loop.repayments,
        updatedAdvanceCredit |->
            updatedAdvanceCreditOf(member.advance_credit,
                                   IF extra > 0 THEN loop.remainingExtra ELSE 0)]

ContributionTrans(id, memberId, accountId, date, share) ==
    [id |-> id, date |-> date, memberId |-> memberId, accountId |-> accountId,
     fund_type |-> "PRINCIPAL", transaction_type |-> "CONTRIBUTION",
     amount |-> share, related_loan_id |-> NoId]

RepaymentTrans(id, memberId, accountId, date, amount, loanId) ==
    [id |-> id, date |-> date, memberId |-> memberId, accountId |-> accountId,
     fund_type |-> "PRINCIPAL", transaction_type |-> "LOAN_REPAYMENT",
     amount |-> amount, related_loan_id |-> loanId]

\* localNewTransactions, with fresh ids starting at `first`
localNewTransactions(memberId, amount, accountId, date, first) ==
    LET a == Allocate(memberId, amount, date)
        c == IF a.share > 0
             THEN <<ContributionTrans(first, memberId, accountId, date, a.share)>>
             ELSE <<>>
        r == [i \in 1..Len(a.repayments) |->
                RepaymentTrans(first + Len(c) + i - 1, memberId, accountId, date,
                               a.repayments[i].amount, a.repayments[i].loanId)]
    IN c \o r

AddContribution(memberId, amount, accountId, date, okM, okT) ==
    /\ fetchPc = "idle"
    /\ IF ~HasMember(memberId)
       THEN /\ lastCall' = [op |-> "addContribution", ret |-> MemberNotFound]
            /\ UNCHANGED <<members, transactions, db, fetchPc, nextId, failures>>
       ELSE LET new == localNewTransactions(memberId, amount, accountId, date, nextId.t)
                credit == Allocate(memberId, amount, date).updatedAdvanceCredit
                inserted == Len(new) > 0
                insertFailed == inserted /\ ~okT
            IN /\ nextId.t + Len(new) - 1 <= MaxTrans
               /\ credit <= MaxCredit
               /\ transactions' = transactions \o new
               /\ members' = ApplyMemberUpdate(members, memberId, credit)
               /\ db' = [db EXCEPT
                          !.members = IF okM THEN ApplyMemberUpdate(@, memberId, credit) ELSE @,
                          !.transactions = IF inserted /\ okT
                                           THEN @ \o MapSeq(new, ToDbTrans) ELSE @]
               /\ fetchPc' = IF insertFailed THEN "members" ELSE fetchPc
               /\ nextId' = [nextId EXCEPT !.t = @ + Len(new)]
               /\ failures' = failures + Failed(okM) + (IF insertFailed THEN 1 ELSE 0)
               /\ failures' <= MaxFailures
               /\ lastCall' = [op |-> "addContribution", ret |-> OkRet]
    /\ UNCHANGED <<accounts, loans, workingDate>>

----------------------------------------------------------------------------
(* addLoan *)

\* a slip: only the principal pool is compared with the amount
InsufficientFundsPrincipalOnly(accountId, amount) ==
    getAccountBalance(accountId).principal < amount

\* balance.total < amount
InsufficientFunds(accountId, amount) == getAccountBalance(accountId).total < amount

\* a slip: only the loans issued on or before the working date are looked at,
\* as getMemberStats does
hasActiveLoanVisibleOnly(memberId) ==
    \E i \in 1..Len(loans) :
        /\ loans[i].memberId = memberId
        /\ isBeforeOrOnWorkingDate(loans[i].date_given)
        /\ getLoanDetails(loans[i]).status # "PAID"

\* memberLoans.some(l => getLoanDetails(l).status !== 'PAID')
hasActiveLoan(memberId) ==
    \E i \in 1..Len(loans) :
        loans[i].memberId = memberId /\ getLoanDetails(loans[i]).status # "PAID"

\* dueDate.setDate(dueDate.getDate() + 30)
dueDate(date) == date + LoanTermDays

NewLoan(id, memberId, amount, date, interestRate) ==
    [id |-> id, memberId |-> memberId, amount_given |-> amount,
     interest_rate |-> interestRate, date_given |-> date, due_date |-> dueDate(date)]

\* a slip: the disbursement is booked to the interest pool
LoanGivenTransInterest(id, memberId, accountId, date, amount) ==
    [id |-> id, date |-> date, memberId |-> memberId, accountId |-> accountId,
     fund_type |-> "INTEREST", transaction_type |-> "LOAN_GIVEN",
     amount |-> -amount, related_loan_id |-> NoId]

LoanGivenTrans(id, memberId, accountId, date, amount) ==
    [id |-> id, date |-> date, memberId |-> memberId, accountId |-> accountId,
     fund_type |-> "PRINCIPAL", transaction_type |-> "LOAN_GIVEN",
     amount |-> -amount, related_loan_id |-> NoId]

AddLoan(memberId, amount, accountId, date, interestRate, okL, okT) ==
    /\ fetchPc = "idle"
    /\ IF InsufficientFunds(accountId, amount)
       THEN /\ lastCall' = [op |-> "addLoan", ret |-> InsufficientFundsErr]
            /\ UNCHANGED <<loans, transactions, db, fetchPc, nextId, failures>>
       ELSE IF hasActiveLoan(memberId)
       THEN /\ lastCall' = [op |-> "addLoan", ret |-> OutstandingLoanErr]
            /\ UNCHANGED <<loans, transactions, db, fetchPc, nextId, failures>>
       ELSE LET loan == NewLoan(nextId.l, memberId, amount, date, interestRate)
                trans == LoanGivenTrans(nextId.t, memberId, accountId, date, amount)
            IN /\ nextId.l <= MaxLoans
               /\ nextId.t <= MaxTrans
               /\ loans' = Append(loans, loan)
               /\ transactions' = Append(transactions, trans)
               /\ nextId' = [nextId EXCEPT !.l = @ + 1, !.t = @ + 1]
               /\ IF ~okL
                  THEN \* the loan insert failed: resync, the entry is never sent
                       /\ db' = db
                       /\ fetchPc' = "members"
                       /\ failures' = failures + 1
                       /\ lastCall' = [op |-> "addLoan", ret |-> DatabaseErr]
                  ELSE /\ db' = [db EXCEPT
                                  !.loans = Append(@, ToDbLoan(loan)),
                                  !.transactions = IF okT THEN Append(@, ToDbTrans(trans)) ELSE @]
                       /\ fetchPc' = fetchPc
                       /\ failures' = failures + Failed(okT)
                       /\ lastCall' = [op |-> "addLoan", ret |-> OkRet]
               /\ failures' <= MaxFailures
    /\ UNCHANGED <<members, accounts, workingDate>>

----------------------------------------------------------------------------
(* addRepayment *)

HasLoan(loanId) == \E i \in 1..Len(loans) : loans[i].id = loanId
FindLoan(loanId) ==
    loans[CHOOSE i \in 1..Len(loans) :
              /\ loans[i].id = loanId
              /\ \A j \in 1..(i - 1) : loans[j].id # loanId]

\* addRepayment, had it appended its entry only once the insert succeeded
AddRepaymentAfterWrite(loanId, amount, accountId, date, ok) ==
    /\ fetchPc = "idle"
    /\ IF ~HasLoan(loanId)
       THEN UNCHANGED <<transactions, db, nextId, failures>>
       ELSE LET trans == RepaymentTrans(nextId.t, FindLoan(loanId).memberId,
                                        accountId, date, amount, loanId)
            IN /\ nextId.t <= MaxTrans
               /\ transactions' = IF ok THEN Append(transactions, trans) ELSE transactions
               /\ db' = IF ok THEN [db EXCEPT !.transactions = Append(@, ToDbTrans(trans))]
                        ELSE db
               /\ nextId' = [nextId EXCEPT !.t = @ + 1]
               /\ failures' = failures + Failed(ok)
    /\ lastCall' = [op |-> "addRepayment", ret |-> "void"]
    /\ UNCHANGED <<members, accounts, loans, workingDate, fetchPc>>

AddRepayment(loanId, amount, accountId, date, ok) ==
    /\ fetchPc = "idle"
    /\ IF ~HasLoan(loanId)
       THEN UNCHANGED <<transactions, db, nextId, failures>>
       ELSE LET trans == RepaymentTrans(nextId.t, FindLoan(loanId).memberId,
                                        accountId, date, amount, loanId)
            IN /\ nextId.t <= MaxTrans
               /\ transactions' = Append(transactions, trans)
               /\ db' = IF ok THEN [db EXCEPT !.transactions = Append(@, ToDbTrans(trans))]
                        ELSE db
               /\ nextId' = [nextId EXCEPT !.t = @ + 1]
               /\ failures' = failures + Failed(ok)
    /\ lastCall' = [op |-> "addRepayment", ret |-> "void"]
    /\ UNCHANGED <<members, accounts, loans, workingDate, fetchPc>>

----------------------------------------------------------------------------
(* addExpense *)

allInterestIncoming ==
    SumAmount(SelectSeq(transactions, LAMBDA t :
        t.fund_type = "INTEREST" /\ t.amount > 0 /\ isBeforeOrOnWorkingDate(t.date)))

allInterestOutgoing ==
    SumAmount(SelectSeq(transactions, LAMBDA t :
        /\ t.transaction_type = "EXPENSE" /\ t.fund_type = "INTEREST"
        /\ isBeforeOrOnWorkingDate(t.date)))

\* the EXPENSE amounts are stored negative, so this adds what was spent
availableInterest == allInterestIncoming - allInterestOutgoing

ExpenseTrans(id, accountId, date, amount) ==
    [id |-> id, date |-> date, memberId |-> NoId, accountId |-> accountId,
     fund_type |-> "INTEREST", transaction_type |-> "EXPENSE",
     amount |-> -amount, related_loan_id |-> NoId]

\* a slip: the entry is appended before the available interest is tested
AddExpenseAppendsFirst(amount, accountId, date, ok) ==
    LET trans == ExpenseTrans(nextId.t, accountId, date, amount)
        refused == availableInterest < amount
    IN /\ fetchPc = "idle"
       /\ nextId.t <= MaxTrans
       /\ transactions' = Append(transactions, trans)
       /\ nextId' = [nextId EXCEPT !.t = @ + 1]
       /\ db' = IF ok /\ ~refused
                THEN [db EXCEPT !.transactions = Append(@, ToDbTrans(trans))] ELSE db
       /\ failures' = failures + (IF refused THEN 0 ELSE Failed(ok))
       /\ lastCall' = [op |-> "addExpense",
                       ret |-> IF refused THEN InsufficientInterestErr ELSE OkRet]
       /\ UNCHANGED <<members, accounts, loans, workingDate, fetchPc>>

AddExpense(amount, accountId, date, ok) ==
    /\ fetchPc = "idle"
    /\ IF availableInterest < amount
       THEN /\ lastCall' = [op |-> "addExpense", ret |-> InsufficientInterestErr]
            /\ UNCHANGED <<transactions, db, nextId, failures>>
       ELSE LET trans == ExpenseTrans(nextId.t, accountId, date, amount)
            IN /\ nextId.t <= MaxTrans
               /\ transactions' = Append(transactions, trans)
               /\ db' = IF ok THEN [db EXCEPT !.transactions = Append(@, ToDbTrans(trans))]
                        ELSE db
               /\ nextId' = [nextId EXCEPT !.t = @ + 1]
               /\ failures' = failures + Failed(ok)
               /\ lastCall' = [op |-> "addExpense", ret |-> OkRet]
    /\ UNCHANGED <<members, accounts, loans, workingDate, fetchPc>>

----------------------------------------------------------------------------
(* addOpeningBalance *)

OpeningBalanceTrans(id, accountId, date, amount, fundType) ==
    [id |-> id, date |-> date, memberId |-> NoId, accountId |-> accountId,
     fund_type |-> fundType, transaction_type |-> "OPENING_BALANCE",
     amount |-> amount, related_loan_id |-> NoId]

\* addOpeningBalance, had it replaced the opening balance the account and
\* pool already have instead of appending to the log
AddOpeningBalanceReplacing(accountId, amount, fundType, date, ok) ==
    LET trans == OpeningBalanceTrans(nextId.t, accountId, date, amount, fundType)
        kept(t, acc) == ~(/\ t.transaction_type = "OPENING_BALANCE"
                          /\ acc = accountId /\ t.fund_type = fundType)
    IN /\ fetchPc = "idle"
       /\ nextId.t <= MaxTrans
       /\ transactions' = Append(SelectSeq(transactions, LAMBDA t : kept(t, t.accountId)),
                                 trans)
       /\ db' = IF ok
                THEN [db EXCEPT !.transactions =
                        Append(SelectSeq(@, LAMBDA r : kept(r, r.account_id)), ToDbTrans(trans))]
                ELSE db
       /\ nextId' = [nextId EXCEPT !.t = @ + 1]
       /\ failures' = failures + Failed(ok)
       /\ lastCall' = [op |-> "addOpeningBalance", ret |-> "void"]
       /\ UNCHANGED <<members, accounts, loans, workingDate, fetchPc>>

AddOpeningBalance(accountId, amount, fundType, date, ok) ==
    LET trans == OpeningBalanceTrans(nextId.t, accountId, date, amount, fundType)
    IN /\ fetchPc = "idle"
       /\ nextId.t <= MaxTrans
       /\ transactions' = Append(transactions, trans)
       /\ db' = IF ok THEN [db EXCEPT !.transactions = Append(@, ToDbTrans(trans))] ELSE db
       /\ nextId' = [nextId EXCEPT !.t = @ + 1]
       /\ failures' = failures + Failed(ok)
       /\ lastCall' = [op |-> "addOpeningBalance", ret |-> "void"]
       /\ UNCHANGED <<members, accounts, loans, workingDate, fetchPc>>

----------------------------------------------------------------------------
(* deleteTransaction *)

\* deleteTransaction, had it filtered the log before the outcome of the
\* delete was known
DeleteTransactionOptimistic(id, ok) ==
    /\ fetchPc = "idle"
    /\ transactions' = SelectSeq(transactions, LAMBDA t : t.id # id)
    /\ db' = IF ok THEN [db EXCEPT !.transactions = SelectSeq(@, LAMBDA r : r.id # id)]
             ELSE db
    /\ failures' = failures + Failed(ok)
    /\ lastCall' = [op |-> "deleteTransaction", ret |-> "void"]
    /\ UNCHANGED <<members, accounts, loans, workingDate, fetchPc, nextId>>

DeleteTransaction(id, ok) ==
    /\ fetchPc = "idle"
    /\ IF ~ok
       THEN UNCHANGED <<transactions, db>>
       ELSE /\ db' = [db EXCEPT !.transactions = SelectSeq(@, LAMBDA r : r.id # id)]
            /\ transactions' = SelectSeq(transactions, LAMBDA t : t.id # id)
    /\ failures' = failures + Failed(ok)
    /\ lastCall' = [op |-> "deleteTransaction", ret |-> "void"]
    /\ UNCHANGED <<members, accounts, loans, workingDate, fetchPc, nextId>>

----------------------------------------------------------------------------
(* addTransfer *)

TransferTrans(id, accountId, date, amount, fundType) ==
    [id |-> id, date |-> date, memberId |-> NoId, accountId |-> accountId,
     fund_type |-> fundType, transaction_type |-> "TRANSFER",
     amount |-> amount, related_loan_id |-> NoId]

\* a slip: both entries carry the amount with the same sign
TransferPairSameSign(first, fromAccountId, toAccountId, amount, fundType, date) ==
    << TransferTrans(first, fromAccountId, date, amount, fundType),
       TransferTrans(first + 1, toAccountId, date, amount, fundType) >>

\* trans1 and trans2
TransferPair(first, fromAccountId, toAccountId, amount, fundType, date) ==
    << TransferTrans(first, fromAccountId, date, -amount, fundType),
       TransferTrans(first + 1, toAccountId, date, amount, fundType) >>

AddTransfer(fromAccountId, toAccountId, amount, fundType, date, ok) ==
    LET pair == TransferPair(nextId.t, fromAccountId, toAccountId, amount, fundType, date)
    IN /\ fetchPc = "idle"
       /\ nextId.t + 1 <= MaxTrans
       /\ transactions' = transactions \o pair
       /\ db' = IF ok THEN [db EXCEPT !.transactions = @ \o MapSeq(pair, ToDbTrans)] ELSE db
       /\ nextId' = [nextId EXCEPT !.t = @ + 2]
       /\ failures' = failures + Failed(ok)
       /\ lastCall' = [op |-> "addTransfer", ret |-> "void"]
       /\ UNCHANGED <<members, accounts, loans, workingDate, fetchPc>>

----------------------------------------------------------------------------
(* addAccount, deleteAccount *)

AddAccount(name, type, memberId, ok) ==
    LET newAccount == [id |-> nextId.a, account_name |-> name, type |-> type,
                       active |-> TRUE, memberId |-> memberId]
    IN /\ fetchPc = "idle"
       /\ Len(accounts) < MaxAccounts
       /\ accounts' = Append(accounts, newAccount)
       /\ db' = IF ok THEN [db EXCEPT !.accounts = Append(@, ToDbAccount(newAccount))] ELSE db
       /\ nextId' = [nextId EXCEPT !.a = @ + 1]
       /\ failures' = failures + Failed(ok)
       /\ lastCall' = [op |-> "addAccount", ret |-> "id"]
       /\ UNCHANGED <<members, transactions, loans, workingDate, fetchPc>>

Abs(x) == IF x < 0 THEN 0 - x ELSE x

\* Math.abs(totalBalance) > 0.01, over integer amounts
ExceedsEpsilon(totalBalance) == Abs(totalBalance) * 100 > EPSILON_HUNDREDTHS

\* a slip: the balance at the working date (getAccountBalance) is tested
accountTotalVisible(id) == getAccountBalance(id).total

\* accTrans.reduce((sum, t) => sum + t.amount, 0): every entry of the account
accountTotal(id) == SumAmount(SelectSeq(transactions, LAMBDA t : t.accountId = id))

DeleteAccount(id, ok) ==
    /\ fetchPc = "idle"
    /\ IF ExceedsEpsilon(accountTotal(id))
       THEN /\ lastCall' = [op |-> "deleteAccount", ret |-> CannotDeleteErr]
            /\ UNCHANGED <<accounts, db, fetchPc, failures>>
       ELSE /\ accounts' = SelectSeq(accounts, LAMBDA a : a.id # id)
            /\ db' = IF ok THEN [db EXCEPT !.accounts = SelectSeq(@, LAMBDA r : r.id # id)]
                     ELSE db
            \* the delete failed: sync back
            /\ fetchPc' = IF ok THEN fetchPc ELSE "members"
            /\ failures' = failures + Failed(ok)
            /\ lastCall' = [op |-> "deleteAccount", ret |-> OkRet]
    /\ UNCHANGED <<members, transactions, loans, workingDate, nextId>>

----------------------------------------------------------------------------
(* Inputs shared by the scenarios *)

MemberIdsInUse == {members[i].id : i \in 1..Len(members)}
LoanIdsInUse == {loans[i].id : i \in 1..Len(loans)}
TransIdsInUse == {transactions[i].id : i \in 1..Len(transactions)}
AccountIdsInUse == {accounts[i].id : i \in 1..Len(accounts)}
\* an identity no member ever has
UnknownMember == NoId

\* records earlier sessions stored carry identities above every fresh one
Stored(i) == 100 + i

StoredMember(i, credit) ==
    ToDbMember([id |-> Stored(i), active |-> TRUE, advance_credit |-> credit])
StoredAccounts ==
    << ToDbAccount([id |-> Stored(1), account_name |-> "Cash", type |-> "CASH",
                    active |-> TRUE, memberId |-> NoId]),
       ToDbAccount([id |-> Stored(2), account_name |-> "Bank", type |-> "BANK",
                    active |-> TRUE, memberId |-> NoId]) >>
Cash == Stored(1)
Bank == Stored(2)

\* the backend answers every call
Healthy == {TRUE}

fetchData(outcomes) ==
    \/ \E ok \in outcomes : FetchMembers(ok)
    \/ \E ok \in outcomes, okSeed \in outcomes : FetchAccounts(ok, okSeed)
    \/ \E ok \in outcomes : FetchLoans(ok)
    \/ \E ok \in outcomes : FetchTransactions(ok)

----------------------------------------------------------------------------
(* Spec: the loan lifecycle over a healthy backend. Two members and two    *)
(* accounts are stored; the Cash account holds 200 of principal and 200 of *)
(* interest. Members borrow 200 at 50% (300 due), repay directly or        *)
(* through contributions, entries are deleted and the working date moves.  *)

LedgerBackend ==
    [members |-> <<StoredMember(1, 0), StoredMember(2, 0)>>,
     accounts |-> StoredAccounts,
     loans |-> <<>>,
     transactions |->
        << ToDbTrans(OpeningBalanceTrans(Stored(1), Cash, 1, 200, "PRINCIPAL")),
           ToDbTrans(OpeningBalanceTrans(Stored(2), Cash, 1, 200, "INTEREST")) >>]

LoanAmounts == {200}
InterestRates == {50}
RepaymentAmounts == {100, 500}
LedgerContributions == {1500}

Init == InitOver(LedgerBackend, 1)

Next ==
    \/ fetchData(Healthy)
    \/ \E d \in Days : SetWorkingDate(d)
    \/ \E m \in MemberIdsInUse \cup {UnknownMember}, a \in LedgerContributions, d \in Days :
            AddContribution(m, a, Cash, d, TRUE, TRUE)
    \/ \E m \in MemberIdsInUse, a \in LoanAmounts, d \in Days, r \in InterestRates :
            AddLoan(m, a, Cash, d, r, TRUE, TRUE)
    \/ \E l \in LoanIdsInUse, a \in RepaymentAmounts, d \in Days :
            AddRepayment(l, a, Cash, d, TRUE)
    \/ \E id \in TransIdsInUse \cap 1..MaxTrans : DeleteTransaction(id, TRUE)

Spec == Init /\ [][Next]_vars

----------------------------------------------------------------------------
(* Vocabulary of the claims, stated over the log itself *)

Loans == {loans[i] : i \in 1..Len(loans)}
Entries == {transactions[i] : i \in 1..Len(transactions)}
\* the entries a step appended
NewEntries == {transactions'[i] : i \in 1..Len(transactions')} \ Entries
NewLoans == {loans'[i] : i \in 1..Len(loans')} \ Loans

RECURSIVE SumOver(_)
SumOver(es) ==
    IF es = {} THEN 0
    ELSE LET e == CHOOSE x \in es : TRUE IN e.amount + SumOver(es \ {e})

Visible(e) == e.date <= workingDate

\* what a loan still owes at the working date
Owed(l) ==
    l.amount_given + (l.amount_given * l.interest_rate) \div 100
    - SumOver({e \in Entries : /\ e.transaction_type = "LOAN_REPAYMENT"
                                 /\ e.related_loan_id = l.id /\ Visible(e)})
Outstanding(l) == Owed(l) > 0
OutstandingOf(m) == {l \in Loans : l.memberId = m /\ Outstanding(l)}

\* an account's balances at the working date
PoolBalance(acc, pool) ==
    SumOver({e \in Entries : e.accountId = acc /\ e.fund_type = pool /\ Visible(e)})
TotalBalance(acc) == PoolBalance(acc, "PRINCIPAL") + PoolBalance(acc, "INTEREST")

AtMostOneOutstanding == \A l \in Loans : Cardinality(OutstandingOf(l.memberId)) <= 1

----------------------------------------------------------------------------
(* C5 *)

RepaymentsKept ==
    \A e \in Entries : e.transaction_type = "LOAN_REPAYMENT" =>
        e \in {transactions'[i] : i \in 1..Len(transactions')}

----------------------------------------------------------------------------
(* C6 *)

\* C6 (as claimed): addLoan for a member with a loan that is not PAID at the
\* working date fails with the outstanding-loan error and creates nothing.
C6_OutstandingLoanError ==
    [][ \A m \in MemberIdsInUse, a \in LoanAmounts, d \in Days, r \in InterestRates :
          (AddLoan(m, a, Cash, d, r, TRUE, TRUE) /\ OutstandingOf(m) # {})
          => /\ lastCall'.ret = OutstandingLoanErr
             /\ loans' = loans /\ transactions' = transactions ]_vars

\* C6 (amended): addLoan for a member with a loan that is not PAID at the
\* working date fails and creates no Loan and no entry; the error is the
\* insufficient-funds error when the account's total balance is below the
\* principal (that check comes first) and the outstanding-loan error
\* otherwise; so whenever a loan is created, no loan of that member is
\* non-PAID at that moment.
C6_OutstandingLoanRejected ==
    [][ \A m \in MemberIdsInUse, a \in LoanAmounts, d \in Days, r \in InterestRates :
          AddLoan(m, a, Cash, d, r, TRUE, TRUE)
          => /\ OutstandingOf(m) # {}
                => /\ loans' = loans /\ transactions' = transactions
                   /\ lastCall'.ret = IF TotalBalance(Cash) < a
                                      THEN InsufficientFundsErr ELSE OutstandingLoanErr
             /\ NewLoans # {} => OutstandingOf(m) = {} ]_vars

\* addLoan has just been refused for an outstanding loan
C6_Witness ==
    /\ lastCall = [op |-> "addLoan", ret |-> OutstandingLoanErr]
    /\ \E l \in Loans : Outstanding(l)

----------------------------------------------------------------------------
(* C7 *)

\* C7: addLoan fails with the insufficient-funds error, creating no Loan and
\* no entry, exactly when the source account's total balance (principal +
\* interest, at the working date) is less than the principal.
C7_InsufficientFunds ==
    [][ \A m \in MemberIdsInUse, a \in LoanAmounts, d \in Days, r \in InterestRates :
          AddLoan(m, a, Cash, d, r, TRUE, TRUE)
          => /\ (lastCall'.ret = InsufficientFundsErr) <=> (TotalBalance(Cash) < a)
             /\ lastCall'.ret = InsufficientFundsErr
                => loans' = loans /\ transactions' = transactions ]_vars

\* both outcomes happen: a refusal for lack of funds, after a loan was
\* granted from an account whose principal alone would not have covered it
C7_Witness ==
    /\ lastCall = [op |-> "addLoan", ret |-> InsufficientFundsErr]
    /\ TotalBalance(Cash) < 200
    /\ PoolBalance(Cash, "PRINCIPAL") < 0

----------------------------------------------------------------------------
(* C8 *)

\* what a successful addLoan creates
LoanCreated(m, a, acc, d, r) ==
    /\ Len(loans') = Len(loans) + 1
    /\ SubSeq(loans', 1, Len(loans)) = loans
    /\ LET l == loans'[Len(loans')]
       IN /\ l.memberId = m /\ l.amount_given = a /\ l.interest_rate = r
          /\ l.date_given = d /\ l.due_date = d + 30
          /\ l.id \notin LoanIdsInUse
    /\ Len(transactions') = Len(transactions) + 1
    /\ SubSeq(transactions', 1, Len(transactions)) = transactions
    /\ LET e == transactions'[Len(transactions')]
       IN /\ e.transaction_type = "LOAN_GIVEN" /\ e.fund_type = "PRINCIPAL"
          /\ e.amount = -a /\ e.accountId = acc /\ e.date = d /\ e.memberId = m
          /\ e.id \notin TransIdsInUse

\* C8 (as claimed): a successful addLoan adds one Loan (due 30 days after
\* issue) and one LOAN_GIVEN/PRINCIPAL entry of -principal, so the source
\* account's principal balance drops by the principal and its interest
\* balance is unchanged.
C8_LoanAndBalance ==
    [][ \A m \in MemberIdsInUse, a \in LoanAmounts, d \in Days, r \in InterestRates :
          (AddLoan(m, a, Cash, d, r, TRUE, TRUE) /\ lastCall'.ret = OkRet)
          => /\ LoanCreated(m, a, Cash, d, r)
             /\ PoolBalance(Cash, "PRINCIPAL")' = PoolBalance(Cash, "PRINCIPAL") - a
             /\ PoolBalance(Cash, "INTEREST")' = PoolBalance(Cash, "INTEREST") ]_vars

\* C8 (amended): a successful addLoan adds one Loan (due 30 days after issue)
\* and one LOAN_GIVEN/PRINCIPAL entry of -principal and no other entry; the
\* source account's principal balance at the working date drops by the
\* principal when the issue date is on or before the working date and is
\* unchanged when the loan is dated after it; the interest balance is
\* unchanged.
C8_LoanAndVisibleBalance ==
    [][ \A m \in MemberIdsInUse, a \in LoanAmounts, d \in Days, r \in InterestRates :
          (AddLoan(m, a, Cash, d, r, TRUE, TRUE) /\ lastCall'.ret = OkRet)
          => /\ LoanCreated(m, a, Cash, d, r)
             /\ PoolBalance(Cash, "PRINCIPAL")' =
                    PoolBalance(Cash, "PRINCIPAL") - (IF d <= workingDate THEN a ELSE 0)
             /\ PoolBalance(Cash, "INTEREST")' = PoolBalance(Cash, "INTEREST") ]_vars

\* a loan has just been granted with an issue date after the working date
C8_Witness ==
    /\ lastCall = [op |-> "addLoan", ret |-> OkRet]
    /\ loans # <<>>
    /\ loans[Len(loans)].date_given > workingDate
    /\ transactions[Len(transactions)].transaction_type = "LOAN_GIVEN"

----------------------------------------------------------------------------
(* C9 *)

LoanOf(e) == CHOOSE l \in Loans : l.id = e.related_loan_id

RepaymentsWithinBalance(ops) ==
    lastCall'.op \in ops
    => \A e \in NewEntries :
          e.transaction_type = "LOAN_REPAYMENT"
          => /\ \E l \in Loans : l.id = e.related_loan_id
             /\ e.amount <= Owed(LoanOf(e))

\* C9 (as claimed): every LOAN_REPAYMENT entry, from the allocator or from
\* addRepayment, is at most the loan's outstanding balance when appended.
C9_EveryRepaymentWithinBalance ==
    [][ RepaymentsWithinBalance({"addContribution", "addRepayment"}) ]_vars

\* C9 (amended): every LOAN_REPAYMENT entry appended by the allocator
\* (addContribution) is at most the balance its loan has at the working date
\* when the entry is appended; addRepayment appends whatever amount it is
\* given.
C9_AllocatorRepaymentWithinBalance ==
    [][ RepaymentsWithinBalance({"addContribution"}) ]_vars

\* the allocator has just repaid a loan
C9_Witness ==
    /\ lastCall = [op |-> "addContribution", ret |-> OkRet]
    /\ transactions[Len(transactions)].transaction_type = "LOAN_REPAYMENT"
    /\ transactions[Len(transactions)].id \in 1..MaxTrans

----------------------------------------------------------------------------
(* Scenario: expenses against the interest pool.  The backend holds the    *)
(* two accounts and an opening interest balance of 200 on Cash.            *)

ExpenseBackend ==
    [members |-> <<>>, accounts |-> StoredAccounts, loans |-> <<>>,
     transactions |->
        << ToDbTrans(OpeningBalanceTrans(Stored(1), Cash, 1, 200, "INTEREST")) >>]

OpeningAmounts == {100}
ExpenseAmounts == {200, 500}

InitExpense == InitOver(ExpenseBackend, 1)

NextExpense ==
    \/ fetchData(Healthy)
    \/ \E d \in Days : SetWorkingDate(d)
    \/ \E a \in OpeningAmounts, f \in FundTypes, d \in Days :
          AddOpeningBalance(Cash, a, f, d, TRUE)
    \/ \E a \in ExpenseAmounts, acc \in {Cash, Bank}, d \in Days :
          AddExpense(a, acc, d, TRUE)

SpecExpense == InitExpense /\ [][NextExpense]_vars

----------------------------------------------------------------------------
(* C1 *)

\* the positive INTEREST entries visible at the working date
InterestIncome ==
    SumOver({e \in Entries : e.fund_type = "INTEREST" /\ e.amount > 0 /\ Visible(e)})

\* the total magnitude of the EXPENSE/INTEREST entries visible at the working date
InterestSpent ==
    0 - SumOver({e \in Entries : /\ e.transaction_type = "EXPENSE"
                                   /\ e.fund_type = "INTEREST" /\ Visible(e)})

\* C1: addExpense succeeds only if its amount is at most the interest still
\* available at the working date (positive INTEREST entries minus what
\* EXPENSE/INTEREST entries already spent); an expense that would exceed it
\* fails with the insufficient-interest error and appends nothing.
C1_NoDoubleSpend ==
    [][ \A a \in ExpenseAmounts, acc \in {Cash, Bank}, d \in Days :
          AddExpense(a, acc, d, TRUE)
          => IF a <= InterestIncome - InterestSpent
             THEN lastCall'.ret = OkRet
             ELSE lastCall'.ret = InsufficientInterestErr /\ transactions' = transactions
      ]_vars

----------------------------------------------------------------------------
(* Scenario: the members' register.  The backend holds one member with no  *)
(* carried credit and the two accounts.                                    *)

MemberBackend ==
    [members |-> <<StoredMember(1, 0)>>, accounts |-> StoredAccounts,
     loans |-> <<>>, transactions |-> <<>>]

CreditInputs == {-100, 0, 500}
MemberContributions == {1500}

InitMember == InitOver(MemberBackend, 1)

NextMember ==
    \/ fetchData(Healthy)
    \/ \E c \in CreditInputs : AddMember(c, TRUE)
    \/ \E id \in MemberIdsInUse, c \in CreditInputs : UpdateMember(id, c, TRUE)
    \/ \E m \in MemberIdsInUse, a \in MemberContributions :
          AddContribution(m, a, Cash, workingDate, TRUE, TRUE)

SpecMember == InitMember /\ [][NextMember]_vars

----------------------------------------------------------------------------
(* C10 *)

\* C10: in every reachable state every member's carried credit is >= 0,
\* under any sequence of addMember, updateMember and addContribution calls.
C10_CreditNonNegative ==
    \A i \in 1..Len(members) : members[i].advance_credit >= 0

----------------------------------------------------------------------------
(* Scenario: the contribution allocator over a stored ledger.  Member 1    *)
(* has some carried credit, up to two loans of 200 at 50% (300 due each),  *)
(* stored in either order of issue, and earlier contributions and          *)
(* repayments, some dated after the working date.                          *)

StoredCredits == {-100, 0, 200}

StoredLoan(i, m, d) == ToDbLoan(NewLoan(Stored(i), Stored(m), 200, d, 50))

StoredLoans ==
    { <<>>,
      <<StoredLoan(1, 1, 1)>>,
      <<StoredLoan(1, 1, 1), StoredLoan(2, 1, 2)>>,
      <<StoredLoan(1, 1, 2), StoredLoan(2, 1, 1)>>,
      <<StoredLoan(1, 2, 1), StoredLoan(2, 1, 2)>> }

StoredContribution(i, d, a) ==
    ToDbTrans(ContributionTrans(Stored(i), Stored(1), Cash, d, a))
StoredRepayment(i, d, a) ==
    ToDbTrans(RepaymentTrans(Stored(i), Stored(1), Cash, d, a, Stored(1)))

\* the repayments are of loan Stored(1)
StoredLogs(ls) ==
    { <<>>,
      <<StoredContribution(1, 1, 1000)>>,
      <<StoredContribution(1, 2, 600)>> }
    \cup
    IF ls # <<>> /\ ls[1].member_id = Stored(1)
    THEN { <<StoredRepayment(1, 1, 100)>>,
           <<StoredRepayment(1, 2, 300)>>,
           <<StoredContribution(1, 2, 600), StoredRepayment(2, 1, 100)>> }
    ELSE {}

AllocBackends ==
    UNION { { [members |-> <<StoredMember(1, c), StoredMember(2, 0)>>,
               accounts |-> StoredAccounts, loans |-> ls, transactions |-> ts]
              : c \in StoredCredits, ts \in StoredLogs(ls) } : ls \in StoredLoans }

AllocAmounts == {0, 500, 1500}
\* member 1 contributes; member 2 only owns a loan
Contributors == {Stored(1), UnknownMember}

InitAlloc == \E b \in AllocBackends, d \in Days : InitOver(b, d)

NextAlloc ==
    \/ fetchData(Healthy)
    \/ \E d \in Days : SetWorkingDate(d)
    \/ \E m \in Contributors, a \in AllocAmounts, d \in Days :
          AddContribution(m, a, Cash, d, TRUE, TRUE)

SpecAlloc == InitAlloc /\ [][NextAlloc]_vars

----------------------------------------------------------------------------
(* C2, C3, C4: what the claims say of one addContribution call *)

CarriedCredit(m) ==
    (CHOOSE x \in {members[i] : i \in 1..Len(members)} : x.id = m).advance_credit

\* the member's CONTRIBUTION entries dated exactly d, whatever the working date
AlreadyContributed(m, d) ==
    SumOver({e \in Entries : /\ e.memberId = m /\ e.transaction_type = "CONTRIBUTION"
                               /\ e.date = d})

Pool(m, a) == a + CarriedCredit(m)
ShareCapacity(m, d) == Max(0, 1000 - AlreadyContributed(m, d))
ShareOf(m, a, d) == Min(ShareCapacity(m, d), Pool(m, a))

NewContributions == {e \in NewEntries : e.transaction_type = "CONTRIBUTION"}
NewRepayments == {e \in NewEntries : e.transaction_type = "LOAN_REPAYMENT"}
PaidTo(l) == SumOver({e \in NewRepayments : e.related_loan_id = l.id})

RECURSIVE SumOwed(_)
SumOwed(ls) ==
    IF ls = {} THEN 0
    ELSE LET l == CHOOSE x \in ls : TRUE IN Owed(l) + SumOwed(ls \ {l})

\* the step is addContribution for an existing member
Contributes(m, a, d) ==
    AddContribution(m, a, Cash, d, TRUE, TRUE) /\ m \in MemberIdsInUse

\* the log only grows, by entries of this member on the account and date given
AppendsOnly(m, d) ==
    /\ SubSeq(transactions', 1, Len(transactions)) = transactions
    /\ Cardinality(NewEntries) = Len(transactions') - Len(transactions)
    /\ \A e \in NewEntries :
          /\ e.memberId = m /\ e.accountId = Cash /\ e.date = d
          /\ e.fund_type = "PRINCIPAL"
          /\ e.transaction_type \in {"CONTRIBUTION", "LOAN_REPAYMENT"}

\* C2: addContribution for an existing member emits exactly one
\* CONTRIBUTION/PRINCIPAL entry on the destination account of amount
\* share = min(max(0, 1000 - alreadyContributedToday), amount + carriedCredit)
\* when share > 0 and none otherwise, alreadyContributedToday being the
\* member's CONTRIBUTION entries dated exactly the contribution date whatever
\* the working date; the share entry comes before any repayment, and a pool
\* that fits in the remaining capacity leaves every loan untouched.
C2_ShareOfContribution ==
    [][ \A m \in Contributors, a \in AllocAmounts, d \in Days :
          Contributes(m, a, d)
          => /\ lastCall'.ret = OkRet
             /\ AppendsOnly(m, d)
             /\ IF ShareOf(m, a, d) > 0
                THEN /\ Cardinality(NewContributions) = 1
                     /\ transactions'[Len(transactions) + 1] \in NewContributions
                     /\ transactions'[Len(transactions) + 1].amount = ShareOf(m, a, d)
                ELSE NewContributions = {}
             /\ Pool(m, a) <= ShareCapacity(m, d) => NewRepayments = {} ]_vars

\* a share of 400 has been emitted for a date after the working date, on
\* which 600 had been contributed already
C2_Witness ==
    /\ lastCall = [op |-> "addContribution", ret |-> OkRet]
    /\ \E e \in Entries : /\ e.id \in 1..MaxTrans /\ e.transaction_type = "CONTRIBUTION"
                          /\ e.amount = 400 /\ e.date > workingDate
    /\ \E e \in Entries : /\ e.id = Stored(1) /\ e.transaction_type = "CONTRIBUTION"
                          /\ e.amount = 600 /\ e.date > workingDate

\* C3: the extra (pool minus share) goes to the member's loans that are not
\* PAID at the working date, oldest issue date first: each receives one
\* LOAN_REPAYMENT/PRINCIPAL entry of min(remaining extra, its balance) tagged
\* with it, and a later-issued loan is repaid only if every earlier-issued
\* unpaid loan was repaid in full by this batch.
C3_OldestLoanFirst ==
    [][ \A m \in Contributors, a \in AllocAmounts, d \in Days :
          Contributes(m, a, d)
          => LET unpaid == OutstandingOf(m)
                 extra == Pool(m, a) - ShareOf(m, a, d)
                 first == Len(transactions) + 1
                 last == Len(transactions')
             IN /\ AppendsOnly(m, d)
                /\ \A e \in NewRepayments :
                      e.amount > 0 /\ \E l \in unpaid : l.id = e.related_loan_id
                /\ \A l \in unpaid :
                      /\ Cardinality({e \in NewRepayments : e.related_loan_id = l.id}) <= 1
                      /\ PaidTo(l) <= Owed(l)
                      /\ PaidTo(l) > 0
                         => \A k \in unpaid :
                               k.date_given < l.date_given => PaidTo(k) = Owed(k)
                /\ SumOver(NewRepayments) = Min(extra, SumOwed(unpaid))
                /\ \A i, j \in first..last :
                      (/\ i < j
                       /\ transactions'[i].transaction_type = "LOAN_REPAYMENT"
                       /\ transactions'[j].transaction_type = "LOAN_REPAYMENT")
                      => LoanOf(transactions'[i]).date_given
                            <= LoanOf(transactions'[j]).date_given ]_vars

\* one contribution has repaid two loans, the older one first although it
\* is stored after the newer one
C3_Witness ==
    /\ lastCall = [op |-> "addContribution", ret |-> OkRet]
    /\ Len(loans) = 2
    /\ loans[2].date_given < loans[1].date_given
    /\ \E i, j \in 1..Len(transactions) :
          /\ i < j
          /\ transactions[i].id \in 1..MaxTrans /\ transactions[j].id \in 1..MaxTrans
          /\ transactions[i].transaction_type = "LOAN_REPAYMENT"
          /\ transactions[j].transaction_type = "LOAN_REPAYMENT"
          /\ transactions[i].related_loan_id = loans[2].id
          /\ transactions[j].related_loan_id = loans[1].id

\* C4: after a successful addContribution the member's carried credit is
\* exactly what is left of amount + previous credit after the share and the
\* repayments of this call; the previous credit is replaced, not added to,
\* and nobody else's credit changes.
C4_CreditIsLeftover ==
    [][ \A m \in Contributors, a \in AllocAmounts, d \in Days :
          Contributes(m, a, d)
          => /\ lastCall'.ret = OkRet
             /\ Len(members') = Len(members)
             /\ \A i \in 1..Len(members) :
                   /\ members'[i].id = members[i].id
                   /\ members'[i].advance_credit =
                         IF members[i].id = m
                         THEN Pool(m, a) - ShareOf(m, a, d) - SumOver(NewRepayments)
                         ELSE members[i].advance_credit ]_vars

\* a member who carried a credit of 200 is left with 700
C4_Witness ==
    /\ lastCall = [op |-> "addContribution", ret |-> OkRet]
    /\ CarriedCredit(Stored(1)) = 700

----------------------------------------------------------------------------
(* Scenario: transfers between the two stored accounts.  The backend holds *)
(* an opening balance on Cash and one earlier transfer of 100 to Bank.     *)

TransferBackend ==
    [members |-> <<>>, accounts |-> StoredAccounts, loans |-> <<>>,
     transactions |->
        << ToDbTrans(OpeningBalanceTrans(Stored(1), Cash, 1, 200, "PRINCIPAL")) >>
        \o MapSeq(TransferPair(Stored(2), Cash, Bank, 100, "PRINCIPAL", 1), ToDbTrans)]

TransferAmounts == {200}

InitTransfer == InitOver(TransferBackend, 1)

NextTransfer ==
    \/ fetchData(Healthy)
    \/ \E d \in Days : SetWorkingDate(d)
    \/ \E from \in {Cash, Bank}, to \in {Cash, Bank}, a \in TransferAmounts,
          f \in FundTypes, d \in Days : AddTransfer(from, to, a, f, d, TRUE)
    \/ \E id \in TransIdsInUse : DeleteTransaction(id, TRUE)

SpecTransfer == InitTransfer /\ [][NextTransfer]_vars

----------------------------------------------------------------------------
(* C11 *)

\* the step appends exactly the two TRANSFER entries, -a on from and +a on to
TransferAppended(from, to, a, f, d) ==
    /\ Len(transactions') = Len(transactions) + 2
    /\ SubSeq(transactions', 1, Len(transactions)) = transactions
    /\ LET e1 == transactions'[Len(transactions) + 1]
           e2 == transactions'[Len(transactions) + 2]
       IN /\ e1.id # e2.id /\ {e1.id, e2.id} \cap TransIdsInUse = {}
          /\ e1.transaction_type = "TRANSFER" /\ e2.transaction_type = "TRANSFER"
          /\ e1.accountId = from /\ e1.amount = 0 - a
          /\ e2.accountId = to /\ e2.amount = a
          /\ e1.fund_type = f /\ e2.fund_type = f
          /\ e1.date = d /\ e2.date = d
          /\ e1.amount + e2.amount = 0

\* how much the balance of an account in a pool moves when the transfer counts
\* at the working date
TransferDelta(acc, pool, from, to, a, f) ==
    IF pool # f THEN 0
    ELSE (IF acc = to THEN a ELSE 0) - (IF acc = from THEN a ELSE 0)

\* C11 (as claimed): addTransfer appends exactly two TRANSFER entries in one
\* step, -amount on the from-account and +amount on the to-account, same pool
\* and date, summing to zero; the from-account's balance in that pool falls by
\* amount, the to-account's rises by amount, everything else is unchanged.
C11_TransferMovesBalance ==
    [][ \A from \in {Cash, Bank}, to \in {Cash, Bank}, a \in TransferAmounts,
           f \in FundTypes, d \in Days :
          AddTransfer(from, to, a, f, d, TRUE)
          => /\ TransferAppended(from, to, a, f, d)
             /\ PoolBalance(from, f)' = PoolBalance(from, f) - a
             /\ PoolBalance(to, f)' = PoolBalance(to, f) + a
             /\ \A acc \in AccountIdsInUse, pool \in FundTypes :
                   (pool # f \/ acc \notin {from, to})
                   => PoolBalance(acc, pool)' = PoolBalance(acc, pool) ]_vars

\* C11 (amended): addTransfer appends exactly two TRANSFER entries in one
\* step, -amount on the from-account and +amount on the to-account, same pool
\* and date, summing to zero; when the date is on or before the working date
\* and the two accounts differ, the from-account's balance in that pool falls
\* by amount and the to-account's rises by amount; a transfer dated after the
\* working date, or from an account to itself, changes no balance at the
\* working date; every other balance is unchanged.
C11_TransferMovesVisibleBalance ==
    [][ \A from \in {Cash, Bank}, to \in {Cash, Bank}, a \in TransferAmounts,
           f \in FundTypes, d \in Days :
          AddTransfer(from, to, a, f, d, TRUE)
          => /\ TransferAppended(from, to, a, f, d)
             /\ \A acc \in AccountIdsInUse, pool \in FundTypes :
                   PoolBalance(acc, pool)' =
                      PoolBalance(acc, pool)
                      + (IF d <= workingDate
                         THEN TransferDelta(acc, pool, from, to, a, f) ELSE 0) ]_vars

\* a transfer between the two accounts dated after the working date has just
\* been appended
C11_Witness ==
    /\ lastCall = [op |-> "addTransfer", ret |-> "void"]
    /\ Len(transactions) >= 2
    /\ LET e1 == transactions[Len(transactions) - 1]
           e2 == transactions[Len(transactions)]
       IN /\ e1.transaction_type = "TRANSFER" /\ e2.transaction_type = "TRANSFER"
          /\ e1.id \in 1..MaxTrans /\ e2.id \in 1..MaxTrans
          /\ e1.accountId # e2.accountId
          /\ e1.date > workingDate

----------------------------------------------------------------------------
(* C12 *)

Transfers == {e \in Entries : e.transaction_type = "TRANSFER"}

\* C12: in every reachable state of the in-memory log the TRANSFER entries
\* form matched pairs of equal magnitude and opposite sign with the same fund
\* pool and date, so their signed sum in each fund pool is zero.
C12_TransfersPaired ==
    /\ \A e \in Transfers :
          \E o \in Transfers \ {e} :
             /\ o.amount = 0 - e.amount /\ o.fund_type = e.fund_type /\ o.date = e.date
    /\ \A pool \in FundTypes : SumOver({e \in Transfers : e.fund_type = pool}) = 0

----------------------------------------------------------------------------
(* Scenario: validation.  One member, the two accounts; Cash holds 200 of   *)
(* interest, Bank an opening balance of 100 dated day 2.                    *)

ValidationBackend ==
    [members |-> <<StoredMember(1, 0)>>, accounts |-> StoredAccounts, loans |-> <<>>,
     transactions |->
        << ToDbTrans(OpeningBalanceTrans(Stored(1), Cash, 1, 200, "INTEREST")),
           ToDbTrans(OpeningBalanceTrans(Stored(2), Bank, 2, 100, "PRINCIPAL")) >>]

InitValidation == InitOver(ValidationBackend, 1)

NextValidation ==
    \/ fetchData(Healthy)
    \/ \E d \in Days : SetWorkingDate(d)
    \/ \E id \in AccountIdsInUse : DeleteAccount(id, TRUE)
    \/ \E a \in ExpenseAmounts, d \in Days : AddExpense(a, Cash, d, TRUE)
    \/ \E a \in LoanAmounts, r \in InterestRates :
          AddLoan(Stored(1), a, Cash, workingDate, r, TRUE, TRUE)
    \/ \E m \in {Stored(1), UnknownMember}, a \in LedgerContributions :
          AddContribution(m, a, Cash, workingDate, TRUE, TRUE)

SpecValidation == InitValidation /\ [][NextValidation]_vars

----------------------------------------------------------------------------
(* C13 *)

\* the signed sum of every entry of the account, whatever its date or pool
EntriesTotal(acc) == SumOver({e \in Entries : e.accountId = acc})

\* C13: deleteAccount removes the account only if the signed sum of all its
\* entries (all dates, both pools) is zero; otherwise it returns an error
\* message and leaves the accounts, the entries and the backend unchanged.
\* (Amounts are whole numbers here, so zero within the tolerance is zero.)
C13_DeleteOnlyEmptyAccount ==
    [][ \A id \in AccountIdsInUse :
          DeleteAccount(id, TRUE)
          => IF EntriesTotal(id) = 0
             THEN /\ lastCall'.ret = OkRet
                  /\ accounts' = SelectSeq(accounts, LAMBDA x : x.id # id)
                  /\ db'.accounts = SelectSeq(db.accounts, LAMBDA x : x.id # id)
                  /\ transactions' = transactions
             ELSE /\ lastCall'.ret = CannotDeleteErr
                  /\ UNCHANGED <<accounts, transactions, db>> ]_vars

\* an account whose entries cancel out has just been deleted
C13_Witness ==
    /\ lastCall = [op |-> "deleteAccount", ret |-> OkRet]
    /\ \E e \in Entries : e.accountId \notin AccountIdsInUse
    /\ Len(accounts) = 1

----------------------------------------------------------------------------
(* C15 *)

ValidationErrors ==
    {MemberNotFound, InsufficientFundsErr, OutstandingLoanErr,
     InsufficientInterestErr, CannotDeleteErr}

\* C15: whenever addContribution, addLoan, addExpense or deleteAccount returns
\* a validation error, the in-memory members, accounts, loans and entries and
\* the backend contents are exactly as before the call.
C15_ValidationFailureAppliesNothing ==
    [][ (/\ lastCall'.op \in {"addContribution", "addLoan", "addExpense", "deleteAccount"}
         /\ lastCall'.ret \in ValidationErrors)
        => UNCHANGED <<members, accounts, loans, transactions, db>> ]_vars

\* an expense has just been refused for lack of interest, after one was granted
C15_Witness ==
    /\ lastCall = [op |-> "addExpense", ret |-> InsufficientInterestErr]
    /\ \E e \in Entries : e.transaction_type = "EXPENSE"

----------------------------------------------------------------------------
(* Scenario: loan status.  The backend holds a loan of 1000 at 10% issued  *)
(* on day 1 and a loan of 200 at 50% issued on day 2; repayments are made  *)
(* and the working date moves up to and past the due dates.                *)

StatusBackend ==
    [members |-> <<StoredMember(1, 0), StoredMember(2, 0)>>,
     accounts |-> StoredAccounts,
     loans |-> << ToDbLoan(NewLoan(Stored(1), Stored(1), 1000, 1, 10)),
                  ToDbLoan(NewLoan(Stored(2), Stored(2), 200, 2, 50)) >>,
     transactions |->
        << ToDbTrans(LoanGivenTrans(Stored(1), Stored(1), Cash, 1, 1000)),
           ToDbTrans(LoanGivenTrans(Stored(2), Stored(2), Cash, 2, 200)) >>]

StatusDates == WorkingDates \cup {dueDate(d) : d \in Days}

\* a reader (a page) asks for the details of a loan
GetLoanDetails(loan) ==
    /\ fetchPc = "idle"
    /\ lastCall' = [op |-> "getLoanDetails", ret |-> getLoanDetails(loan).status]
    /\ UNCHANGED <<members, accounts, transactions, loans, workingDate, db, fetchPc,
                   nextId, failures>>

InitStatus == InitOver(StatusBackend, 1)

NextStatus ==
    \/ fetchData(Healthy)
    \/ \E d \in StatusDates : SetWorkingDate(d)
    \/ \E l \in LoanIdsInUse, a \in RepaymentAmounts, d \in {1, LateDay} :
          AddRepayment(l, a, Cash, d, TRUE)
    \/ \E l \in Loans : GetLoanDetails(l)

SpecStatus == InitStatus /\ [][NextStatus]_vars

----------------------------------------------------------------------------
(* C14 *)

\* the repayments of a loan that count at the working date
PaidAsOf(l) ==
    SumOver({e \in Entries : /\ e.transaction_type = "LOAN_REPAYMENT"
                               /\ e.related_loan_id = l.id /\ e.date <= workingDate})

\* C14: getLoanDetails returns interestAmount = principal * rate / 100,
\* totalDue = principal + interestAmount, amountPaid = the LOAN_REPAYMENT
\* entries of the loan dated on or before the working date, balance =
\* totalDue - amountPaid, and status PAID iff balance <= 0, otherwise OVERDUE
\* iff the working date is strictly after the due date, otherwise UNPAID.
C14_LoanDetails ==
    [][ \A l \in Loans :
          GetLoanDetails(l)
          => LET det == getLoanDetails(l)
             IN /\ det.interestAmount * 100 = l.amount_given * l.interest_rate
                /\ det.totalDue = l.amount_given + det.interestAmount
                /\ det.amountPaid = PaidAsOf(l)
                /\ det.balance = det.totalDue - det.amountPaid
                /\ (det.status = "PAID") <=> (det.balance <= 0)
                /\ (det.status = "OVERDUE") <=> (det.balance > 0 /\ workingDate > l.due_date)
                /\ (det.status = "UNPAID") <=> (det.balance > 0 /\ workingDate <= l.due_date)
                /\ lastCall'.ret = det.status ]_vars

\* the loan of 1000 at 10%, unpaid, has just been read on its due date: it
\* owes 1100 and is not overdue yet
C14_Witness ==
    /\ lastCall = [op |-> "getLoanDetails", ret |-> "UNPAID"]
    /\ \E l \in Loans : /\ l.amount_given = 1000 /\ workingDate = l.due_date
                        /\ PaidAsOf(l) = 0
    \* the other loan is settled, so the answer is about the loan of 1000
    /\ \A l \in Loans : l.amount_given # 1000 => PaidAsOf(l) >= 300

----------------------------------------------------------------------------
(* Scenario: a backend whose writes can fail.  Two members, the first with  *)
(* a loan of 200, the two accounts, 200 of principal and 200 of interest    *)
(* left on Cash.  Every mutation is taken with both outcomes of each of its *)
(* writes; the selects of fetchData succeed.                                *)

FailureBackend ==
    [members |-> <<StoredMember(1, 0), StoredMember(2, 0)>>,
     accounts |-> StoredAccounts,
     loans |-> <<StoredLoan(1, 1, 1)>>,
     transactions |->
        << ToDbTrans(OpeningBalanceTrans(Stored(1), Cash, 1, 400, "PRINCIPAL")),
           ToDbTrans(OpeningBalanceTrans(Stored(2), Cash, 1, 200, "INTEREST")),
           ToDbTrans(LoanGivenTrans(Stored(3), Stored(1), Cash, 1, 200)) >>]

InitFailure == InitOver(FailureBackend, 1)

\* the records the handlers have created so far
Created == (nextId.m - 1) + (nextId.a - 1) + (nextId.l - 1) + (nextId.t - 1)

\* the ids the handlers can have given to entries they created
CreatedIds == 1..(nextId.t - 1)

NextFailure ==
    \/ fetchData(Healthy)
    \/ \E ok \in WriteOutcomes : Created < MaxCreated /\ AddMember(0, ok)
    \/ \E ok \in WriteOutcomes : UpdateMember(Stored(2), 500, ok)
    \/ \E ok \in WriteOutcomes :
          Created < MaxCreated /\ AddAccount("Till", "CASH", NoId, ok)
    \/ \E ok \in WriteOutcomes : DeleteAccount(Bank, ok)
    \/ \E okM \in WriteOutcomes, okT \in WriteOutcomes :
          /\ Created < MaxCreated
          /\ AddContribution(Stored(1), 1500, Cash, workingDate, okM, okT)
    \/ \E okL \in WriteOutcomes, okT \in WriteOutcomes :
          /\ Created < MaxCreated
          /\ AddLoan(Stored(2), 200, Cash, workingDate, 50, okL, okT)
    \/ \E l \in LoanIdsInUse, ok \in WriteOutcomes :
          Created < MaxCreated /\ AddRepayment(l, 100, Cash, workingDate, ok)
    \/ \E ok \in WriteOutcomes :
          Created < MaxCreated /\ AddExpense(200, Cash, workingDate, ok)
    \/ \E ok \in WriteOutcomes :
          /\ Created < MaxCreated
          /\ AddTransfer(Cash, Bank, 200, "PRINCIPAL", workingDate, ok)
    \/ \E ok \in WriteOutcomes :
          /\ Created < MaxCreated
          /\ AddOpeningBalance(Bank, 100, "PRINCIPAL", workingDate, ok)
    \/ \E id \in TransIdsInUse \cap CreatedIds, ok \in WriteOutcomes :
          DeleteTransaction(id, ok)

SpecFailure == InitFailure /\ [][NextFailure]_vars

----------------------------------------------------------------------------
(* C16 *)

Mutations ==
    {"addMember", "updateMember", "addAccount", "deleteAccount", "addContribution",
     "addLoan", "addRepayment", "addExpense", "addTransfer", "addOpeningBalance"}

\* the step is a mutation one of whose durable writes failed
WriteFailed(ops) == lastCall'.op \in ops /\ failures' > failures

\* C16: whenever the durable write of a mutation fails, a full reload of the
\* in-memory state from the backend is started (the handler whose write
\* failed is what starts it).
C16_FailedWriteStartsReload ==
    [][ WriteFailed(Mutations) => fetchPc' = "members" ]_vars

----------------------------------------------------------------------------
(* C17 *)

SetOf(s) == {s[i] : i \in 1..Len(s)}

MemoryMatchesBackend ==
    /\ SetOf(members) = SetOf(MapSeq(db.members, FromDbMember))
    /\ SetOf(accounts) = SetOf(MapSeq(db.accounts, FromDbAccount))
    /\ SetOf(loans) = SetOf(MapSeq(db.loans, FromDbLoan))
    /\ SetOf(transactions) = SetOf(MapSeq(db.transactions, FromDbTrans))

\* C17: once no write and no reload is in flight, the in-memory members
\* (carried credit included), accounts, loans and entries equal the
\* collections stored in the backend, also after failed writes.
C17_MemoryMatchesBackend ==
    fetchPc = "idle" => MemoryMatchesBackend

----------------------------------------------------------------------------
(* C18 *)

EntryLogMutations ==
    {"addContribution", "addLoan", "addRepayment", "addExpense", "addTransfer",
     "addOpeningBalance"}

\* the in-memory change of every add/update handler and of deleteAccount is
\* there after the step on which its durable write failed
AppliedThoughWriteFailed ==
    /\ WriteFailed({"addMember"}) => Len(members') = Len(members) + 1
    /\ \A id \in MemberIdsInUse, credit \in CreditInputs :
          UpdateMember(id, credit, FALSE) =>
              \A i \in 1..Len(members') :
                  members'[i].id = id => members'[i].advance_credit = credit
    /\ WriteFailed({"addAccount"}) => Len(accounts') = Len(accounts) + 1
    /\ \A id \in AccountIdsInUse :
          DeleteAccount(id, FALSE) /\ lastCall'.ret = OkRet => id \notin AccountIdsInUse'
    /\ WriteFailed(EntryLogMutations) => NewEntries # {} /\ Entries \subseteq Entries'
    /\ WriteFailed({"addLoan"}) => NewLoans # {}
    /\ WriteFailed({"addTransfer"}) => Cardinality(NewEntries) = 2

\* deleteTransaction, had it been optimistic: the entry is gone from memory
\* whatever the outcome of the delete
DeleteAppliedThoughWriteFailed ==
    \A id \in TransIdsInUse :
        DeleteTransaction(id, FALSE) => id \notin TransIdsInUse'

\* deleteTransaction as written: memory follows the outcome of the delete
DeleteAppliedAfterWrite ==
    \A id \in TransIdsInUse :
        /\ DeleteTransaction(id, FALSE) => transactions' = transactions
        /\ DeleteTransaction(id, TRUE) => id \notin TransIdsInUse'

\* C18 (as stated): every mutation, deleteTransaction included, makes its
\* in-memory change before its durable write and keeps it when the write
\* fails.
C18_OptimisticApply ==
    [][ AppliedThoughWriteFailed /\ DeleteAppliedThoughWriteFailed ]_vars

\* C18 (amended): addMember, updateMember, addAccount, deleteAccount,
\* addContribution, addLoan, addRepayment, addExpense, addTransfer and
\* addOpeningBalance make their in-memory change whatever the outcome of
\* their durable write and do not undo it when the write fails;
\* deleteTransaction removes the entry from memory only once its delete
\* succeeded and leaves memory as it was when the delete fails.
C18_OptimisticApplyExceptDelete ==
    [][ AppliedThoughWriteFailed /\ DeleteAppliedAfterWrite ]_vars

\* a repayment whose insert failed is in memory and not in the backend
C18_Witness ==
    /\ lastCall.op = "addRepayment"
    /\ failures = 1
    /\ fetchPc = "idle"
    /\ \E e \in Entries :
          /\ e.transaction_type = "LOAN_REPAYMENT"
          /\ \A i \in 1..Len(db.transactions) : db.transactions[i].id # e.id

----------------------------------------------------------------------------
(* C19 *)

StoredEntryIds == {db.transactions[i].id : i \in 1..Len(db.transactions)}
StoredCredit(m) ==
    (CHOOSE r \in {db.members[i] : i \in 1..Len(db.members)} : r.id = m).advance_credit

\* the backend holds the whole batch of the step with the credit it leaves
BatchStored(m) ==
    /\ {e.id : e \in NewEntries} \subseteq StoredEntryIds'
    /\ StoredCredit(m)' = CarriedCredit(m)'
\* the backend holds nothing of the batch of the step
BatchNotStored ==
    /\ {e.id : e \in NewEntries} \cap StoredEntryIds' = {}
    /\ db'.members = db.members

\* C19: the CONTRIBUTION entry, the LOAN_REPAYMENT entries and the
\* replacement of carriedCredit of one addContribution call take effect
\* together: memory holds all of them after the call, and the backend (what
\* a reload following a failed write shows) holds all of them or none.
C19_BatchAtomic ==
    [][ \A m \in MemberIdsInUse, amount \in LedgerContributions,
           okM \in BOOLEAN, okT \in BOOLEAN :
            AddContribution(m, amount, Cash, workingDate, okM, okT) /\ NewEntries # {}
                => BatchStored(m) \/ BatchNotStored ]_vars

----------------------------------------------------------------------------
(* Scenario: a caller that issues the same mutation twice from one render.  *)
(* The handlers are constants of the component body: a handler reads the    *)
(* members, loans and transactions of the render that created it, and its   *)
(* setState calls are functional updates applied at the next render.  Two   *)
(* calls made through the handler of one render therefore evaluate their    *)
(* preconditions and compute their entries on the same state, and both      *)
(* updates are applied, in call order.  The backend of the ledger scenario  *)
(* is used, with every write succeeding.                                    *)

\* addLoan(...); addLoan(...) through the handler of one render
AddLoanBackToBack(memberId, amount, accountId, date, interestRate) ==
    /\ fetchPc = "idle"
    /\ IF InsufficientFunds(accountId, amount)
       THEN /\ lastCall' = [op |-> "addLoan", ret |-> InsufficientFundsErr]
            /\ UNCHANGED <<loans, transactions, db, nextId>>
       ELSE IF hasActiveLoan(memberId)
       THEN /\ lastCall' = [op |-> "addLoan", ret |-> OutstandingLoanErr]
            /\ UNCHANGED <<loans, transactions, db, nextId>>
       ELSE LET loan1 == NewLoan(nextId.l, memberId, amount, date, interestRate)
                loan2 == NewLoan(nextId.l + 1, memberId, amount, date, interestRate)
                trans1 == LoanGivenTrans(nextId.t, memberId, accountId, date, amount)
                trans2 == LoanGivenTrans(nextId.t + 1, memberId, accountId, date, amount)
            IN /\ nextId.l + 1 <= MaxLoans
               /\ nextId.t + 1 <= MaxTrans
               /\ loans' = loans \o <<loan1, loan2>>
               /\ transactions' = transactions \o <<trans1, trans2>>
               /\ db' = [db EXCEPT
                          !.loans = @ \o <<ToDbLoan(loan1), ToDbLoan(loan2)>>,
                          !.transactions = @ \o <<ToDbTrans(trans1), ToDbTrans(trans2)>>]
               /\ nextId' = [nextId EXCEPT !.l = @ + 2, !.t = @ + 2]
               /\ lastCall' = [op |-> "addLoan", ret |-> OkRet]
    /\ UNCHANGED <<members, accounts, workingDate, fetchPc, failures>>

\* addContribution(...); addContribution(...) through the handler of one render
AddContributionBackToBack(memberId, amount, accountId, date) ==
    /\ fetchPc = "idle"
    /\ IF ~HasMember(memberId)
       THEN /\ lastCall' = [op |-> "addContribution", ret |-> MemberNotFound]
            /\ UNCHANGED <<members, transactions, db, nextId>>
       ELSE LET new1 == localNewTransactions(memberId, amount, accountId, date, nextId.t)
                new2 == localNewTransactions(memberId, amount, accountId, date,
                                             nextId.t + Len(new1))
                credit == Allocate(memberId, amount, date).updatedAdvanceCredit
            IN /\ nextId.t + Len(new1) + Len(new2) - 1 <= MaxTrans
               /\ credit <= MaxCredit
               /\ transactions' = transactions \o new1 \o new2
               /\ members' = ApplyMemberUpdate(
                                 ApplyMemberUpdate(members, memberId, credit),
                                 memberId, credit)
               /\ db' = [db EXCEPT
                          !.members = ApplyMemberUpdate(@, memberId, credit),
                          !.transactions = @ \o MapSeq(new1, ToDbTrans)
                                             \o MapSeq(new2, ToDbTrans)]
               /\ nextId' = [nextId EXCEPT !.t = @ + Len(new1) + Len(new2)]
               /\ lastCall' = [op |-> "addContribution", ret |-> OkRet]
    /\ UNCHANGED <<accounts, loans, workingDate, fetchPc, failures>>

CallerContributions == {DAILY_SHARE_CAP}

NextCallers ==
    \/ fetchData(Healthy)
    \/ \E d \in WorkingDates : SetWorkingDate(d)
    \/ \E m \in MemberIdsInUse, a \in CallerContributions :
            AddContribution(m, a, Cash, workingDate, TRUE, TRUE)
    \/ \E m \in MemberIdsInUse, a \in LoanAmounts, r \in InterestRates :
            AddLoan(m, a, Cash, workingDate, r, TRUE, TRUE)
    \/ \E m \in MemberIdsInUse, a \in CallerContributions :
            AddContributionBackToBack(m, a, Cash, workingDate)
    \/ \E m \in MemberIdsInUse, a \in LoanAmounts, r \in InterestRates :
            AddLoanBackToBack(m, a, Cash, workingDate, r)

SpecCallers == Init /\ [][NextCallers]_vars

----------------------------------------------------------------------------
(* C20 *)

\* the second of two addLoan calls sees the loan of the first and refuses
SecondLoanSeesFirst ==
    \A m \in MemberIdsInUse, a \in LoanAmounts, r \in InterestRates :
        AddLoanBackToBack(m, a, Cash, workingDate, r) =>
            Cardinality({l \in NewLoans : l.memberId = m}) <= 1

\* the second of two addContribution calls sees the CONTRIBUTION entry of the
\* first: what it adds to the day stays within the daily share cap
SecondContributionSeesFirst ==
    \A m \in MemberIdsInUse, a \in CallerContributions :
        AddContributionBackToBack(m, a, Cash, workingDate) =>
            AlreadyContributed(m, workingDate)' <= DAILY_SHARE_CAP

\* C20: mutations are serialized: of two addLoan calls or two addContribution
\* calls issued back-to-back for the same member, the second evaluates its
\* preconditions and computes its entries on a state that holds the loan,
\* the entries and the carriedCredit of the first.
C20_MutationsSerialized ==
    [][ SecondLoanSeesFirst /\ SecondContributionSeesFirst ]_vars

----------------------------------------------------------------------------
(* Scenario: the selects of fetchData can fail.  The provider mounts over   *)
(* one of the stored backends of the other scenarios; the handlers write to *)
(* a healthy backend, so the reload of the mount effect is the only reload. *)

ReloadBackends == {LedgerBackend, TransferBackend, StatusBackend, FailureBackend}

InitReload == \E backend \in ReloadBackends : InitOver(backend, 1)

NextReload ==
    \/ fetchData(WriteOutcomes)
    \/ \E d \in WorkingDates : SetWorkingDate(d)
    \/ AddMember(0, TRUE)
    \/ AddOpeningBalance(Bank, 100, "PRINCIPAL", workingDate, TRUE)

SpecReload == InitReload /\ [][NextReload]_vars

----------------------------------------------------------------------------
(* C21 *)

\* the in-memory collections as the provider was constructed with them
MemoryAsConstructed ==
    /\ members = <<>>
    /\ accounts = <<>>
    /\ loans = <<>>
    /\ transactions = <<>>

\* C21: a reload in which a select failed is aborted and leaves the members,
\* accounts, loans and entries in memory as they were when it started (for
\* the reload of the mount effect: as constructed); no mix of reloaded and
\* stale collections is reached.
C21_FailedReloadLeavesMemory ==
    lastCall.op = "fetchData" /\ failures > 0 => MemoryAsConstructed

----------------------------------------------------------------------------
(* Scenario: moving the working date over a ledger with history.  Member 1  *)
(* borrowed 200 at 50% on day 1, and on day 2 contributed 600, repaid 100   *)
(* and received 100 of the group's cash on an account held in their name.   *)
(* The working date moves over the entry dates, the due dates and beyond,   *)
(* while repayments and contributions are recorded.                         *)

Held == Stored(3)

DatesBackend ==
    [members |-> <<StoredMember(1, 0), StoredMember(2, 0)>>,
     accounts |-> StoredAccounts \o
        << ToDbAccount([id |-> Held, account_name |-> "Held", type |-> "MEMBER",
                        active |-> TRUE, memberId |-> Stored(1)]) >>,
     loans |-> <<StoredLoan(1, 1, 1)>>,
     transactions |->
        << ToDbTrans(OpeningBalanceTrans(Stored(1), Cash, 1, 400, "PRINCIPAL")),
           ToDbTrans(LoanGivenTrans(Stored(2), Stored(1), Cash, 1, 200)),
           StoredContribution(3, 2, 600),
           StoredRepayment(4, 2, 100) >>
        \o MapSeq(TransferPair(Stored(5), Cash, Held, 100, "PRINCIPAL", 2), ToDbTrans)]

InitDates == InitOver(DatesBackend, 1)

NextDates ==
    \/ fetchData(Healthy)
    \/ \E d \in StatusDates : SetWorkingDate(d)
    \/ \E l \in LoanIdsInUse, d \in Days : AddRepayment(l, 100, Cash, d, TRUE)
    \/ \E a \in LedgerContributions :
            AddContribution(Stored(2), a, Cash, workingDate, TRUE, TRUE)

SpecDates == InitDates /\ [][NextDates]_vars

----------------------------------------------------------------------------
(* C22 *)

\* what the readers answer in the current state
Views ==
    [balances |-> [a \in AccountIdsInUse |-> getAccountBalance(a)],
     details |-> [l \in Loans |-> getLoanDetails(l)],
     stats |-> [m \in MemberIdsInUse |-> getMemberStats(m)]]

\* the same answers, worked out from the stored records and a date d alone
BalanceAt(acc, pool, d) ==
    SumOver({e \in Entries : e.accountId = acc /\ e.fund_type = pool /\ e.date <= d})
DueOf(l) == l.amount_given + (l.amount_given * l.interest_rate) \div 100
PaidAt(l, d) ==
    SumOver({e \in Entries : /\ e.transaction_type = "LOAN_REPAYMENT"
                               /\ e.related_loan_id = l.id /\ e.date <= d})
StatusAt(l, d) ==
    IF DueOf(l) - PaidAt(l, d) <= 0 THEN "PAID"
    ELSE IF d > l.due_date THEN "OVERDUE" ELSE "UNPAID"
ContributionsAt(m, d) ==
    {e \in Entries : e.memberId = m /\ e.transaction_type = "CONTRIBUTION" /\ e.date <= d}
ActiveAt(m, d) ==
    {l \in Loans : l.memberId = m /\ l.date_given <= d /\ StatusAt(l, d) # "PAID"}
RECURSIVE SumBalanceAt(_, _)
SumBalanceAt(ls, d) ==
    IF ls = {} THEN 0
    ELSE LET l == CHOOSE x \in ls : TRUE
         IN DueOf(l) - PaidAt(l, d) + SumBalanceAt(ls \ {l}, d)
RECURSIVE SumHeldAt(_, _)
SumHeldAt(as, d) ==
    IF as = {} THEN 0
    ELSE LET a == CHOOSE x \in as : TRUE
         IN BalanceAt(a, "PRINCIPAL", d) + BalanceAt(a, "INTEREST", d)
            + SumHeldAt(as \ {a}, d)
HeldBy(m) ==
    {accounts[i].id : i \in {j \in 1..Len(accounts) :
                               accounts[j].memberId = m /\ accounts[j].type = "MEMBER"}}

ViewsAt(d) ==
    [balances |-> [a \in AccountIdsInUse |->
        [principal |-> BalanceAt(a, "PRINCIPAL", d),
         interest |-> BalanceAt(a, "INTEREST", d),
         total |-> BalanceAt(a, "PRINCIPAL", d) + BalanceAt(a, "INTEREST", d)]],
     details |-> [l \in Loans |->
        [interestAmount |-> DueOf(l) - l.amount_given,
         totalDue |-> DueOf(l),
         amountPaid |-> PaidAt(l, d),
         balance |-> DueOf(l) - PaidAt(l, d),
         status |-> StatusAt(l, d)]],
     stats |-> [m \in MemberIdsInUse |->
        [totalContributed |-> SumOver(ContributionsAt(m, d)),
         activeLoans |-> Cardinality(ActiveAt(m, d)),
         totalLoanBalance |-> SumBalanceAt(ActiveAt(m, d), d),
         lastContributionDate |->
            IF ContributionsAt(m, d) = {} THEN NoId
            ELSE CHOOSE x \in {e.date : e \in ContributionsAt(m, d)} :
                    \A e \in ContributionsAt(m, d) : e.date <= x,
         fundsHeld |-> SumHeldAt(HeldBy(m), d)]]]

\* C22: setWorkingDate changes nothing but the working date: members,
\* accounts, loans, entries and the backend are unchanged, and every balance,
\* loan state and member statistic is determined by the stored records and
\* the working date alone, so that setting the previous date again gives the
\* previous answers.
C22_WorkingDateOnlyChangesAnswers ==
    [][ /\ Views = ViewsAt(workingDate)
        /\ \A d \in StatusDates :
              SetWorkingDate(d) =>
                  /\ UNCHANGED <<members, accounts, loans, transactions, db>>
                  /\ Views' = ViewsAt(d) ]_vars

\* the working date has moved past the due date of the loan and the answers
\* differ from those of day 1: the loan is OVERDUE, the member has
\* contributed and holds funds
C22_Witness ==
    /\ lastCall.op = "setWorkingDate"
    /\ workingDate = LateDay
    /\ \E l \in Loans : getLoanDetails(l).status = "OVERDUE"
    /\ \E m \in MemberIdsInUse :
          /\ getMemberStats(m).fundsHeld > 0
          /\ getMemberStats(m).totalContributed > 0
          /\ getMemberStats(m).activeLoans = 1

----------------------------------------------------------------------------
(* Scenario: every handler that writes to the log or to the registries,     *)
(* over the stored ledger of the failing-backend scenario (two members, a   *)
(* loan of 200 owed by the first, 200 of principal and 200 of interest on   *)
(* Cash) with every write succeeding.                                       *)

InitAppend == InitOver(FailureBackend, 1)

NextAppend ==
    \/ fetchData(Healthy)
    \/ Created < MaxCreated /\ AddMember(0, TRUE)
    \/ UpdateMember(Stored(2), 500, TRUE)
    \/ \E active \in BOOLEAN : UpdateMemberActive(Stored(2), active, TRUE)
    \/ DeleteAccount(Bank, TRUE)
    \/ Created < MaxCreated /\ AddContribution(Stored(1), 1500, Cash, workingDate, TRUE, TRUE)
    \/ Created < MaxCreated /\ AddLoan(Stored(2), 200, Cash, workingDate, 50, TRUE, TRUE)
    \/ \E l \in LoanIdsInUse :
          Created < MaxCreated /\ AddRepayment(l, 100, Cash, workingDate, TRUE)
    \/ Created < MaxCreated /\ AddExpense(200, Cash, workingDate, TRUE)
    \/ Created < MaxCreated /\ AddTransfer(Cash, Bank, 200, "PRINCIPAL", workingDate, TRUE)
    \/ Created < MaxCreated /\ AddOpeningBalance(Cash, 100, "PRINCIPAL", workingDate, TRUE)
    \/ \E id \in TransIdsInUse \cap CreatedIds : DeleteTransaction(id, TRUE)

SpecAppend == InitAppend /\ [][NextAppend]_vars

----------------------------------------------------------------------------
(* C23 *)

StoredEntries == {db.transactions[i] : i \in 1..Len(db.transactions)}
StoredLoanRows == {db.loans[i] : i \in 1..Len(db.loans)}

\* every entry and every loan of before the step is there after it, in
\* memory and in the backend, field for field
RecordsKept ==
    /\ Entries \subseteq Entries'
    /\ Loans \subseteq Loans'
    /\ StoredEntries \subseteq StoredEntries'
    /\ StoredLoanRows \subseteq StoredLoanRows'

\* the members of before the step are there after it, with nothing but the
\* fields named in except rewritten
MembersKeptExcept(except) ==
    /\ Len(members') >= Len(members)
    /\ \A i \in 1..Len(members) :
          \A f \in DOMAIN members[i] \ except : members'[i][f] = members[i][f]

\* the add operations append, and nothing but deleteTransaction and a reload
\* removes an entry or a loan
LogAppendOnly ==
    /\ lastCall'.op \in EntryLogMutations => RecordsKept
    /\ lastCall'.op \notin {"deleteTransaction", "fetchData"} =>
          Entries \subseteq Entries' /\ Loans \subseteq Loans'

\* C23 (as stated): every add operation leaves the entries and loans it
\* found present and unchanged, only deleteTransaction or a reload removes an
\* entry, and on a Member only carriedCredit is ever rewritten.
C23_AppendOnlyCreditOnly ==
    [][ /\ LogAppendOnly
        /\ lastCall'.op # "fetchData" => MembersKeptExcept({"advance_credit"}) ]_vars

\* C23 (amended): every add operation leaves the entries and loans it found
\* present and unchanged and rewrites on a Member nothing but carriedCredit;
\* only deleteTransaction or a reload removes an entry; updateMember rewrites
\* whichever fields of the Member its caller passes, the active flag
\* included.
C23_AppendOnly ==
    [][ /\ LogAppendOnly
        /\ lastCall'.op \in EntryLogMutations => MembersKeptExcept({"advance_credit"})
        /\ lastCall'.op = "updateMember" =>
              MembersKeptExcept({"advance_credit", "active"}) ]_vars

\* a contribution has been appended to a log that held entries and a loan,
\* and has rewritten the contributor's carriedCredit
C23_Witness ==
    /\ lastCall.op = "addContribution"
    /\ lastCall.ret = OkRet
    /\ Cardinality(Entries) > Len(FailureBackend.transactions)
    /\ Loans # {}
    /\ \E i \in 1..Len(members) : members[i].advance_credit > 0

----------------------------------------------------------------------------
(* C24 *)

\* C24: deleteTransaction(id) removes the entry with that identity from
\* memory and from the backend and nothing else: the other entries, the
\* loans, the accounts and the members with their carriedCredit are
\* unchanged and no entry is added; when the backend delete fails, the
\* in-memory log is unchanged.
C24_DeleteRemovesOneEntry ==
    [][ \A id \in TransIdsInUse, ok \in BOOLEAN :
          DeleteTransaction(id, ok) =>
              /\ UNCHANGED <<members, accounts, loans>>
              /\ db'.members = db.members
              /\ db'.accounts = db.accounts
              /\ db'.loans = db.loans
              /\ ok => /\ Entries' = {e \in Entries : e.id # id}
                        /\ Len(transactions') = Len(transactions) - 1
                        /\ StoredEntries' = {r \in StoredEntries : r.id # id}
              /\ ~ok => transactions' = transactions /\ db' = db ]_vars

\* an entry has been deleted from a log that still holds the stored entries
\* and the loan, and a delete the backend refused has been seen as well
C24_Witness ==
    /\ lastCall.op = "deleteTransaction"
    /\ failures = 1
    /\ CreatedIds \ TransIdsInUse # {}
    /\ Cardinality(Entries) >= Len(FailureBackend.transactions)
    /\ Loans # {}

----------------------------------------------------------------------------
(* exportData, resetData, importData *)

\* exportData: the four in-memory collections (chat and stamps left out)
exportData ==
    [members |-> members, accounts |-> accounts, transactions |-> transactions,
     loans |-> loans]

\* resetData: every table is emptied (the results of the deletes are not
\* looked at; here they succeed), then every collection in memory
ResetData ==
    /\ fetchPc = "idle"
    /\ db' = EmptyBackend
    /\ members' = <<>>
    /\ accounts' = <<>>
    /\ loans' = <<>>
    /\ transactions' = <<>>
    /\ lastCall' = [op |-> "resetData", ret |-> "void"]
    /\ UNCHANGED <<workingDate, fetchPc, nextId, failures>>

\* data.members && data.accounts && data.transactions && data.loans
hasAllCollections(data) ==
    {"members", "accounts", "transactions", "loans"} \subseteq DOMAIN data

\* the tables after the inserts of importData into the emptied backend: the
\* results of the first three inserts are not looked at
importedTables(data, okM, okA, okL, okT) ==
    [members |-> IF okM THEN MapSeq(data.members, ToDbMember) ELSE <<>>,
     accounts |-> IF okA THEN MapSeq(data.accounts, ToDbAccount) ELSE <<>>,
     loans |-> IF okL THEN MapSeq(data.loans, ToDbLoan) ELSE <<>>,
     transactions |-> IF okT THEN MapSeq(data.transactions, ToDbTrans) ELSE <<>>]

\* importData; its closing `await fetchData()` is taken with every select
\* succeeding, the seeding of default accounts included
ImportData(data, okM, okA, okL, okT) ==
    /\ fetchPc = "idle"
    /\ IF ~hasAllCollections(data)
       THEN /\ lastCall' = [op |-> "importData", ret |-> "false"]
            /\ UNCHANGED <<members, accounts, loans, transactions, db, nextId, failures>>
       ELSE LET tables == importedTables(data, okM, okA, okL, okT)
                insertT == Len(data.transactions) > 0
                seed == Len(tables.accounts) = 0
            IN /\ failures' = failures + Failed(okM) + Failed(okA) + Failed(okL)
                                + (IF insertT THEN Failed(okT) ELSE 0)
               /\ failures' <= MaxFailures
               /\ seed => nextId.a <= MaxAccounts
               /\ IF insertT /\ ~okT
                  THEN \* the insert of entries throws: only the wipe shows in memory
                       /\ db' = tables
                       /\ members' = <<>>
                       /\ accounts' = <<>>
                       /\ loans' = <<>>
                       /\ transactions' = <<>>
                       /\ nextId' = nextId
                       /\ lastCall' = [op |-> "importData", ret |-> "false"]
                  ELSE /\ db' = IF seed
                                THEN [tables EXCEPT !.accounts =
                                        MapSeq(defaultAccounts(nextId.a), ToDbAccount)]
                                ELSE tables
                       /\ members' = MapSeq(tables.members, FromDbMember)
                       /\ accounts' = IF seed THEN defaultAccounts(nextId.a)
                                      ELSE MapSeq(tables.accounts, FromDbAccount)
                       /\ loans' = MapSeq(tables.loans, FromDbLoan)
                       /\ transactions' = MapSeq(tables.transactions, FromDbTrans)
                       /\ nextId' = IF seed THEN [nextId EXCEPT !.a = @ + 4] ELSE nextId
                       /\ lastCall' = [op |-> "importData", ret |-> "true"]
    /\ UNCHANGED <<workingDate, fetchPc>>

----------------------------------------------------------------------------
(* Scenario: snapshots are imported over the stored ledger.  The snapshots  *)
(* are what exportData gives over the backends of the other scenarios, one  *)
(* exported before any account existed, and a document without loans.       *)

SnapshotOf(backend) ==
    [members |-> MapSeq(backend.members, FromDbMember),
     accounts |-> MapSeq(backend.accounts, FromDbAccount),
     transactions |-> MapSeq(backend.transactions, FromDbTrans),
     loans |-> MapSeq(backend.loans, FromDbLoan)]

Snapshots ==
    { SnapshotOf(StatusBackend), SnapshotOf(TransferBackend), SnapshotOf(FailureBackend),
      SnapshotOf([EmptyBackend EXCEPT !.members = <<StoredMember(1, 0)>>]),
      [members |-> <<>>, accounts |-> <<>>, transactions |-> <<>>] }

InitImport == InitOver(LedgerBackend, 1)

NextImport ==
    \/ fetchData(Healthy)
    \/ \E data \in Snapshots, okM \in WriteOutcomes, okA \in WriteOutcomes,
          okL \in WriteOutcomes, okT \in WriteOutcomes :
            ImportData(data, okM, okA, okL, okT)
    \/ ResetData
    \/ AddMember(0, TRUE)
    \/ AddOpeningBalance(Cash, 100, "PRINCIPAL", workingDate, TRUE)

SpecImport == InitImport /\ [][NextImport]_vars

----------------------------------------------------------------------------
(* C25 *)

StoredIds(rows) == {rows[i].id : i \in 1..Len(rows)}

\* every stored loan has its member stored, every stored entry its account
\* and, when it names one, its loan
DependenciesStored ==
    /\ \A i \in 1..Len(db.loans) : db.loans[i].member_id \in StoredIds(db.members)
    /\ \A i \in 1..Len(db.transactions) :
          /\ db.transactions[i].account_id \in StoredIds(db.accounts)
          /\ db.transactions[i].related_loan_id # NoId =>
                db.transactions[i].related_loan_id \in StoredIds(db.loans)

\* C25: importData of a snapshot with all four collections wipes what is
\* stored and inserts the snapshot's members, accounts, loans and entries in
\* that order, so that no loan is stored without its member and no entry
\* without its account or loan; when it returns true, the stored and the
\* in-memory collections are exactly those of the snapshot.
C25_ImportReplacesAll ==
    [][ \A data \in Snapshots, okM \in BOOLEAN, okA \in BOOLEAN, okL \in BOOLEAN,
           okT \in BOOLEAN :
            ImportData(data, okM, okA, okL, okT) /\ hasAllCollections(data) =>
                /\ DependenciesStored'
                /\ lastCall'.ret = "true" =>
                      /\ exportData' = data
                      /\ SnapshotOf(db)' = data ]_vars

----------------------------------------------------------------------------
(* C26 *)

\* the principal an account holds over all its entries, whatever their date
LedgerPrincipal(acc) ==
    SumOver({e \in Entries : e.accountId = acc /\ e.fund_type = "PRINCIPAL"})

\* C26: the allocator conserves money: for every successful addContribution,
\* amount + previous carriedCredit = the CONTRIBUTION entry emitted (or 0) +
\* the LOAN_REPAYMENT entries emitted + new carriedCredit, and the principal
\* of the destination account rises by amount + previous carriedCredit - new
\* carriedCredit.
C26_AllocatorConserves ==
    [][ \A m \in Contributors, a \in AllocAmounts, d \in Days :
          Contributes(m, a, d) =>
              /\ a + CarriedCredit(m) =
                    SumOver(NewContributions) + SumOver(NewRepayments) + CarriedCredit(m)'
              /\ LedgerPrincipal(Cash)' - LedgerPrincipal(Cash) =
                    a + CarriedCredit(m) - CarriedCredit(m)' ]_vars

----------------------------------------------------------------------------
(* C27 *)

\* C27: whatever addContribution calls have been made, at whatever working
\* dates, the CONTRIBUTION entries of one member dated one calendar date sum
\* to at most the daily share cap of 1000.
C27_DailyCapAcrossCalls ==
    \A m \in MemberIdsInUse, d \in {e.date : e \in Entries} :
        AlreadyContributed(m, d) <= DAILY_SHARE_CAP

----------------------------------------------------------------------------
(* Scenario: contributions only.  The first of two members owes 300 on a    *)
(* loan of day 1 that nothing has repaid yet; members contribute for day 1  *)
(* or day 2 while the working date moves, and no repayment is made          *)
(* directly.                                                                *)

InitRepay == InitOver(FailureBackend, 1)

NextRepay ==
    \/ fetchData(Healthy)
    \/ \E d \in WorkingDates : SetWorkingDate(d)
    \/ \E m \in MemberIdsInUse, a \in AllocAmounts, d \in Days :
          AddContribution(m, a, Cash, d, TRUE, TRUE)

SpecRepay == InitRepay /\ [][NextRepay]_vars

----------------------------------------------------------------------------
(* C28 *)

\* everything ever repaid to a loan, whatever the dates of the entries
RepaidEver(l) ==
    SumOver({e \in Entries : /\ e.transaction_type = "LOAN_REPAYMENT"
                               /\ e.related_loan_id = l.id})

\* C28: with repayments made by addContribution only, at any entry dates and
\* working dates, the LOAN_REPAYMENT entries tagged with a loan never sum to
\* more than the loan's totalDue.
C28_NeverOverpaid ==
    \A l \in Loans : RepaidEver(l) <= DueOf(l)

----------------------------------------------------------------------------
(* Scenario: loans over a backend whose writes can fail, without            *)
(* deleteTransaction.  Two members borrow 200 at 50% from the 400 on Cash   *)
(* and repay; each of the two inserts of addLoan can fail, and so can the   *)
(* delete of deleteAccount, whose failure starts a reload.                  *)

InitLoanWrites == InitOver(LedgerBackend, 1)

NextLoanWrites ==
    \/ fetchData(Healthy)
    \/ \E d \in Days : SetWorkingDate(d)
    \/ \E m \in MemberIdsInUse, okL \in WriteOutcomes, okT \in WriteOutcomes :
          AddLoan(m, 200, Cash, workingDate, 50, okL, okT)
    \/ \E l \in LoanIdsInUse, ok \in WriteOutcomes :
          AddRepayment(l, 500, Cash, workingDate, ok)
    \/ \E ok \in WriteOutcomes : DeleteAccount(Bank, ok)

SpecLoanWrites == InitLoanWrites /\ [][NextLoanWrites]_vars

----------------------------------------------------------------------------
(* C29 *)

\* the LOAN_GIVEN entries among es that disburse loan l: -principal, for its
\* member, on its issue date
DisbursementsOf(l, es) ==
    {e \in es : /\ e.transaction_type = "LOAN_GIVEN"
                 /\ e.memberId = l.memberId
                 /\ e.date = l.date_given
                 /\ e.amount = -l.amount_given}

\* every loan of ls has its own LOAN_GIVEN entry in es and every LOAN_GIVEN
\* entry of es its loan
LoansPaired(ls, es) ==
    /\ \A l \in ls :
          Cardinality(DisbursementsOf(l, es)) =
              Cardinality({k \in ls : DisbursementsOf(k, es) = DisbursementsOf(l, es)})
    /\ \A l \in ls : DisbursementsOf(l, es) # {}
    /\ \A e \in es : e.transaction_type = "LOAN_GIVEN" =>
          \E l \in ls : e \in DisbursementsOf(l, es)

\* C29: with deleteTransaction not used, in every state of the backend, and
\* of memory when no reload is under way, every Loan record has exactly one
\* LOAN_GIVEN entry of -principal for its member and issue date and every
\* LOAN_GIVEN entry has its Loan record, also after a failed write of
\* addLoan.
C29_LoansPairedWithDisbursements ==
    /\ LoansPaired(SetOf(MapSeq(db.loans, FromDbLoan)),
                   SetOf(MapSeq(db.transactions, FromDbTrans)))
    /\ fetchPc = "idle" => LoansPaired(Loans, Entries)

----------------------------------------------------------------------------
(* Scenario: accounts come and go under the add operations.  The backend    *)
(* holds Cash with 400 of principal and 200 of interest, a loan of 200 to   *)
(* member 1 and a transfer of 100 from Cash to Bank; every add operation    *)
(* names an account of the registry.                                        *)

RefsBackend ==
    [FailureBackend EXCEPT !.transactions =
        @ \o MapSeq(TransferPair(Stored(4), Cash, Bank, 100, "PRINCIPAL", 1), ToDbTrans)]

InitRefs == InitOver(RefsBackend, 1)

NextRefs ==
    \/ fetchData(Healthy)
    \/ \E from \in AccountIdsInUse, to \in AccountIdsInUse :
          AddTransfer(from, to, 100, "PRINCIPAL", workingDate, TRUE)
    \/ \E a \in AccountIdsInUse : AddExpense(100, a, workingDate, TRUE)
    \/ \E a \in AccountIdsInUse : AddOpeningBalance(a, 100, "PRINCIPAL", workingDate, TRUE)
    \/ \E l \in LoanIdsInUse, a \in AccountIdsInUse :
          AddRepayment(l, 100, a, workingDate, TRUE)
    \/ \E m \in MemberIdsInUse, a \in AccountIdsInUse :
          AddContribution(m, DAILY_SHARE_CAP, a, workingDate, TRUE, TRUE)
    \/ \E a \in AccountIdsInUse, ok \in WriteOutcomes : DeleteAccount(a, ok)

SpecRefs == InitRefs /\ [][NextRefs]_vars

----------------------------------------------------------------------------
(* C30 *)

\* entry t names an account of the registry and, when it is a repayment,
\* a loan of the loan list
ReferencesResolve(t) ==
    /\ t.accountId \in AccountIdsInUse
    /\ t.transaction_type = "LOAN_REPAYMENT" => t.related_loan_id \in LoanIdsInUse

\* C30: in every in-memory state outside a reload, under any sequence of add
\* operations and deleteAccount, every entry's account reference names an
\* account of the registry and every LOAN_REPAYMENT entry's related-loan
\* reference names an existing loan.
C30_ReferencesResolve ==
    fetchPc = "idle" => \A i \in 1..Len(transactions) : ReferencesResolve(transactions[i])

============================================================================
